---------------------------- MODULE Spec2Model ----------------------------
(***************************************************************************)
(* Model of the pump-core bonding-curve program: the curve arithmetic of   *)
(* utils/bonding_curve.rs and the trade / administration instructions of   *)
(* instructions/*.rs.                                                      *)
(*                                                                         *)
(* The program computes in u64 / u128 / i128.  Those widths do not fit     *)
(* TLC's machine integers, so every program quantity is an unbounded       *)
(* natural number kept as a little-endian sequence of base-1000 limbs      *)
(* without high zero limbs (zero is << >>); the widths of the program's    *)
(* integer types are applied explicitly where the code checks or           *)
(* truncates.                                                              *)
(***************************************************************************)
EXTENDS Integers, Sequences, FiniteSets, TLC

VARIABLES
    overflow_checks,   \* build profile: TRUE if integer overflow panics, FALSE if it wraps
    platform_config,   \* account PlatformConfig
    token_info,        \* account TokenInfo of the market, its BondingCurve included
    user_profile,      \* account UserProfile of the trader
    lamports,          \* lamport balances: bonding_curve_vault, treasury, trader
    tokens,            \* token balances: bonding_curve_token_account, trader's account
    clock,             \* Clock::unix_timestamp
    last,              \* the last instruction: its arguments, its quote and its result
    probe,             \* inputs and results of the curve functions applied on their own
    market_b,          \* a second market and its trader, when there is one
    lp_lock            \* account LpTokenLock of the owner's LP tokens, and their balances

vars == <<overflow_checks, platform_config, token_info, user_profile,
          lamports, tokens, clock, last, probe, market_b, lp_lock>>

(***************************************************************************)
(* Natural-number arithmetic on limb sequences.  The evaluator's stack is  *)
(* shallow, so carries, borrows and comparisons are written in closed form *)
(* and only multiplication and long division recurse, over the limbs.      *)
(***************************************************************************)
\* The largest element of a non-empty set of integers.
MaxOf(S) == CHOOSE m \in S : \A k \in S : k <= m

\* The value of a function of one argument: Let([x \in {e} |-> body]) is body
\* with x naming the value of e, as a `let x = e;` of the code names it.
Let(f) == f[CHOOSE x \in DOMAIN f : TRUE]

\* a without its high zero limbs.
BTrim(a) ==
    LET J == {i \in 1..Len(a) : a[i] # 0}
    IN  IF J = {} THEN << >> ELSE SubSeq(a, 1, MaxOf(J))

RECURSIVE N(_)
\* The limb sequence of a machine-size natural number.
N(n) == IF n = 0 THEN << >> ELSE <<n % 1000>> \o N(n \div 1000)

\* A decimal literal beyond the machine size, written as its groups of three
\* digits, most significant first: Lit(<<18, 446, 744>>) is 18446744.
Lit(g) == BTrim([i \in 1..Len(g) |-> g[Len(g) + 1 - i]])

Limb(a, i) == IF i >= 1 /\ i <= Len(a) THEN a[i] ELSE 0

BCmp(a, b) ==
    IF Len(a) < Len(b) THEN -1
    ELSE IF Len(a) > Len(b) THEN 1
    ELSE LET D == {i \in 1..Len(a) : a[i] # b[i]}
         IN  IF D = {} THEN 0
             ELSE IF a[MaxOf(D)] < b[MaxOf(D)] THEN -1 ELSE 1

BLt(a, b) == BCmp(a, b) < 0
BLe(a, b) == BCmp(a, b) <= 0
BGt(a, b) == BCmp(a, b) > 0
BGe(a, b) == BCmp(a, b) >= 0
BMax(a, b) == IF BGe(a, b) THEN a ELSE b
BMin(a, b) == IF BLe(a, b) THEN a ELSE b

\* a + b; limbs of the arguments may be as large as 999 each.  The
\* carry into limb i is 1 iff some lower column overflows and every column
\* between is full.
BAdd(a, b) ==
    LET n == IF Len(a) >= Len(b) THEN Len(a) ELSE Len(b)
        s == [i \in 1..(n + 1) |-> Limb(a, i) + Limb(b, i)]
        c == [i \in 1..(n + 1) |->
                IF \E j \in 1..(i - 1) :
                       s[j] >= 1000 /\ \A k \in (j + 1)..(i - 1) : s[k] = 1000 - 1
                THEN 1 ELSE 0]
    IN  BTrim([i \in 1..(n + 1) |-> (s[i] + c[i]) % 1000])

\* a - b, for a >= b.  The borrow into limb i is 1 iff some lower column is
\* negative and every column between is zero.
BSub(a, b) ==
    LET n == Len(a)
        d == [i \in 1..n |-> a[i] - Limb(b, i)]
        w == [i \in 1..n |->
                IF \E j \in 1..(i - 1) :
                       d[j] < 0 /\ \A k \in (j + 1)..(i - 1) : d[k] = 0
                THEN 1 ELSE 0]
    IN  BTrim([i \in 1..n |-> (d[i] - w[i] + 1000) % 1000])

\* a * d, for a limb d < 1000: the low and the high halves of the limb
\* products, added.
BMulSmall(a, d) ==
    IF d = 0 \/ a = << >> THEN << >>
    ELSE BAdd([i \in 1..Len(a) |-> (a[i] * d) % 1000],
              [i \in 1..(Len(a) + 1) |-> IF i = 1 THEN 0 ELSE (a[i - 1] * d) \div 1000])

\* a shifted up by k limbs.
BShift(a, k) ==
    IF a = << >> THEN << >>
    ELSE [i \in 1..(Len(a) + k) |-> IF i <= k THEN 0 ELSE a[i - k]]

RECURSIVE MulFrom(_, _, _)
MulFrom(a, b, i) ==
    IF i > Len(b) THEN << >>
    ELSE BAdd(BShift(BMulSmall(a, b[i]), i - 1), MulFrom(a, b, i + 1))

BMul(a, b) ==
    IF a = << >> \/ b = << >> THEN << >>
    ELSE IF Len(a) >= Len(b) THEN MulFrom(a, b, 1) ELSE MulFrom(b, a, 1)

\* The quotient limb r \div b, given r < b * 1000: the leading limbs bound
\* it to two candidates.
QDigit(r, b) ==
    IF BLt(r, b) THEN 0
    ELSE IF Len(b) = 1 THEN (Limb(r, 2) * 1000 + Limb(r, 1)) \div b[1]
    ELSE LET n  == Len(b)
             bt == b[n] * 1000 + b[n - 1]
             rt == Limb(r, n + 1) * 1000 * 1000 + Limb(r, n) * 1000 + Limb(r, n - 1)
             hi == rt \div bt
             lo == rt \div (bt + 1)
         IN  IF hi > lo /\ hi < 1000 /\ BLe(BMulSmall(b, hi), r) THEN hi ELSE lo

RECURSIVE DivFrom(_, _, _, _, _)
\* Long division of the limbs i..1 of a by b, with the remainder r and the
\* quotient limbs q so far: the pair <<quotient, remainder>>.
DivFrom(a, b, i, r, q) ==
    IF i = 0 THEN <<BTrim(q), r>>
    ELSE LET r1 == BTrim(<<a[i]>> \o r)
             d  == QDigit(r1, b)
         IN  IF d = 0 THEN DivFrom(a, b, i - 1, r1, <<0>> \o q)
             ELSE DivFrom(a, b, i - 1, BSub(r1, BMulSmall(b, d)), <<d>> \o q)

\* <<a \div b, a % b>>, for b > 0.
BDivMod(a, b) ==
    IF BLt(a, b) THEN << << >>, a >>
    ELSE DivFrom(a, b, Len(a), << >>, << >>)

BDiv(a, b) == BDivMod(a, b)[1]
BMod(a, b) == BDivMod(a, b)[2]

(***************************************************************************)
(* Integer types of the program.                                           *)
(***************************************************************************)
U16_MAX  == N(65535)
TwoTo16  == N(65536)
U64_MAX  == Lit(<<18, 446, 744, 73, 709, 551, 615>>)
TwoTo64  == Lit(<<18, 446, 744, 73, 709, 551, 616>>)
U128_MAX == Lit(<<340, 282, 366, 920, 938, 463, 463, 374, 607, 431, 768, 211, 455>>)
TwoTo128 == Lit(<<340, 282, 366, 920, 938, 463, 463, 374, 607, 431, 768, 211, 456>>)
I128_MAX == Lit(<<170, 141, 183, 460, 469, 231, 731, 687, 303, 715, 884, 105, 727>>)

Fits64(x)  == BLe(x, U64_MAX)
Fits128(x) == BLe(x, U128_MAX)
\* `x as u64`, `x as u16`: the low bits of x.
AsU64(x) == BMod(x, TwoTo64)
AsU16(x) == BMod(x, TwoTo16)
\* u128 / i128 saturating_mul of non-negative values.
SatMulU128(a, b) == BMin(BMul(a, b), U128_MAX)
SatMulI128(a, b) == BMin(BMul(a, b), I128_MAX)

\* Result<u64>: the value or the error.
Ok(v)  == [ok |-> TRUE,  err |-> "",  v |-> v]
Err(e) == [ok |-> FALSE, err |-> e,   v |-> << >>]

(***************************************************************************)
(* utils/bonding_curve.rs: constants and helpers.                          *)
(***************************************************************************)
PRECISION  == N(1000000000)
MAX_SUPPLY == Lit(<<1, 0, 0, 0, 0, 0>>)
MIN_PRICE  == N(1)
LN_2       == N(693147)

RECURSIVE isqrt_loop(_, _, _)
isqrt_loop(n, x, y) ==
    IF BLt(y, x)
    THEN isqrt_loop(n, y, BDiv(BAdd(y, BDiv(n, y)), N(2)))
    ELSE x

\* fn isqrt(n: u128) -> Result<u128>: Newton's iteration from x = n,
\* y = (n + 1) / 2.  `n + 1` is unchecked: at n = u128::MAX it panics in a
\* build with overflow checks, and in a build without it wraps to 0, the
\* loop sets x = 0 and `n / x` panics.
isqrt(n) ==
    IF n = << >> THEN Ok(<< >>)
    ELSE IF n = U128_MAX THEN Err("Panic")
    ELSE Ok(isqrt_loop(n, n, BDiv(BAdd(n, N(1)), N(2))))

\* The price impact as u16, without the limit of 10000.
calculate_price_impact_unlimited(old_price, new_price) ==
    IF old_price = << >> THEN Ok(N(10000))
    ELSE IF ~Fits64(BMul(IF BGt(new_price, old_price) THEN BSub(new_price, old_price)
                         ELSE BSub(old_price, new_price), N(10000)))
    THEN Err("MathematicalOverflow")
    ELSE Ok(AsU16(BDiv(BMul(IF BGt(new_price, old_price) THEN BSub(new_price, old_price)
                            ELSE BSub(old_price, new_price), N(10000)), old_price)))

\* fn calculate_price_impact(old_price, new_price) -> Result<u16>.
calculate_price_impact(old_price, new_price) ==
    IF old_price = << >> THEN Ok(N(10000))
    ELSE Let([scaled \in {BMul(IF BGt(new_price, old_price)
                   THEN BSub(new_price, old_price)
                   ELSE BSub(old_price, new_price), N(10000))} |->
         IF ~Fits64(scaled) THEN Err("MathematicalOverflow")
         ELSE Ok(BMin(AsU16(BDiv(scaled, old_price)), N(10000)))])

\* fn integrate_linear(a, b, from, to) -> Result<u64>.
integrate_linear(a, b, from, to) ==
    IF BLt(to, from) THEN Err("InvalidAmount")
    ELSE Let([delta \in {BSub(to, from)} |->
         Let([linear_part \in {BMul(a, delta)} |->
         Let([bf \in {BMul(b, from)} |->
         Let([bfd \in {BMul(bf, delta)} |->
         Let([bd \in {BMul(b, delta)} |->
         Let([bdd \in {BMul(bd, delta)} |->
         Let([quadratic \in {BAdd(bfd, BDiv(bdd, N(2)))} |->
         Let([result \in {BAdd(linear_part, quadratic)} |->
         IF ~Fits128(linear_part) \/ ~Fits128(bf) \/ ~Fits128(bfd)
            \/ ~Fits128(bd) \/ ~Fits128(bdd) \/ ~Fits128(quadratic)
            \/ ~Fits128(result)
         THEN Err("MathematicalOverflow")
         ELSE Ok(AsU64(result))])])])])])])])])

\* struct CurveCalculation, wrapped in the Result of the calculation.
CalcOk(token_amount, sol_amount, new_supply, price_per_token, price_impact) ==
    [ok |-> TRUE, err |-> "", token_amount |-> token_amount,
     sol_amount |-> sol_amount, new_supply |-> new_supply,
     price_per_token |-> price_per_token, price_impact |-> price_impact]
CalcErr(e) ==
    [ok |-> FALSE, err |-> e, token_amount |-> << >>, sol_amount |-> << >>,
     new_supply |-> << >>, price_per_token |-> << >>, price_impact |-> << >>]

\* The tail shared by the calculate_* functions: price impact, then Ok.
Finish(token_amount, sol_amount, new_supply, current_price, new_price) ==
    Let([impact \in {calculate_price_impact(current_price, new_price)} |->
    IF ~impact.ok THEN CalcErr(impact.err)
    ELSE CalcOk(token_amount, sol_amount, new_supply, new_price, impact.v)])

(***************************************************************************)
(* LinearCurve: price = a + b * supply.                                    *)
(***************************************************************************)
LinearCurve_new(initial_price, slope, max_supply) ==
    IF BLt(initial_price, MIN_PRICE) \/ slope = << >>
       \/ max_supply = << >> \/ BGt(max_supply, MAX_SUPPLY)
    THEN [ok |-> FALSE, err |-> "InvalidBondingCurveParams"]
    ELSE [ok |-> TRUE, err |-> "", kind |-> "Linear",
          initial_price |-> initial_price, slope |-> slope,
          max_supply |-> max_supply]

\* get_current_price of a LinearCurve without its initial price and without
\* the floor of MIN_PRICE.
Linear_get_current_price_slope_only(c, current_supply) ==
    Let([m \in {BMul(c.slope, current_supply)} |->
    IF ~Fits64(m) THEN Err("MathematicalOverflow") ELSE Ok(m)])

Linear_get_current_price(c, current_supply) ==
    Let([m \in {BMul(c.slope, current_supply)} |->
    Let([p \in {BAdd(c.initial_price, m)} |->
    IF ~Fits64(m) \/ ~Fits64(p) THEN Err("MathematicalOverflow")
    ELSE Ok(BMax(p, MIN_PRICE))])])

Linear_calculate_buy(c, sol_amount, current_supply) ==
    IF sol_amount = << >> THEN CalcErr("InvalidAmount")
    ELSE IF BGt(current_supply, c.max_supply) THEN CalcErr("InvalidInitialSupply")
    ELSE Let([cp \in {Linear_get_current_price(c, current_supply)} |->
    IF ~cp.ok THEN CalcErr(cp.err)
    ELSE Let([a \in {c.initial_price} |->
         Let([b \in {c.slope} |->
         Let([aa \in {BMul(a, a)} |->
         Let([b2 \in {BMul(b, N(2))} |->
         Let([t1 \in {BMul(b2, sol_amount)} |->
         Let([d1 \in {BAdd(aa, t1)} |->
         Let([b2a \in {BMul(b2, a)} |->
         Let([t2 \in {BMul(b2a, current_supply)} |->
         Let([d2 \in {BAdd(d1, t2)} |->
         Let([bb \in {BMul(b, b)} |->
         Let([bbs \in {BMul(bb, current_supply)} |->
         Let([t3 \in {BMul(bbs, current_supply)} |->
         Let([discriminant \in {BAdd(d2, t3)} |->
         Let([bs \in {BMul(b, current_supply)} |->
    IF \E x \in {aa, b2, t1, d1, b2a, t2, d2, bb, bbs, t3, discriminant} : ~Fits128(x)
    THEN CalcErr("MathematicalOverflow")
    ELSE Let([sqrt \in {isqrt(discriminant)} |->
    IF ~sqrt.ok THEN CalcErr(sqrt.err)
    ELSE Let([sqrt_discriminant \in {sqrt.v} |->
    IF BLt(sqrt_discriminant, a) \/ ~Fits128(bs)
       \/ BLt(BSub(sqrt_discriminant, a), bs)
    THEN CalcErr("MathematicalOverflow")
    ELSE Let([token_amount \in {AsU64(BDiv(BSub(BSub(sqrt_discriminant, a), bs), b))} |->
         Let([new_supply \in {BAdd(current_supply, token_amount)} |->
    IF ~Fits64(new_supply) THEN CalcErr("MathematicalOverflow")
    ELSE IF BGt(new_supply, c.max_supply) THEN CalcErr("InvalidInitialSupply")
    ELSE Let([np \in {Linear_get_current_price(c, new_supply)} |->
    IF ~np.ok THEN CalcErr(np.err)
    ELSE Finish(token_amount, sol_amount, new_supply, cp.v, np.v)])])])])])])])])])])])])])])])])])])])])

Linear_calculate_sell_unchecked_balance(c, token_amount, current_supply) ==
    IF token_amount = << >> THEN CalcErr("InvalidAmount")
    ELSE IF BGt(token_amount, current_supply) THEN CalcErr("MathematicalOverflow")
    ELSE Let([new_supply \in {BSub(current_supply, token_amount)} |->
         Let([sol \in {integrate_linear(c.initial_price, c.slope, new_supply, current_supply)} |->
    IF ~sol.ok THEN CalcErr(sol.err)
    ELSE Let([cp \in {Linear_get_current_price(c, current_supply)} |->
         Let([np \in {Linear_get_current_price(c, new_supply)} |->
    IF ~cp.ok THEN CalcErr(cp.err)
    ELSE IF ~np.ok THEN CalcErr(np.err)
    ELSE Finish(token_amount, sol.v, new_supply, cp.v, np.v)])])])])

Linear_calculate_sell(c, token_amount, current_supply) ==
    IF token_amount = << >> THEN CalcErr("InvalidAmount")
    ELSE IF BGt(token_amount, current_supply) THEN CalcErr("InsufficientBalance")
    ELSE Let([new_supply \in {BSub(current_supply, token_amount)} |->
         Let([sol \in {integrate_linear(c.initial_price, c.slope, new_supply, current_supply)} |->
    IF ~sol.ok THEN CalcErr(sol.err)
    ELSE Let([cp \in {Linear_get_current_price(c, current_supply)} |->
         Let([np \in {Linear_get_current_price(c, new_supply)} |->
    IF ~cp.ok THEN CalcErr(cp.err)
    ELSE IF ~np.ok THEN CalcErr(np.err)
    ELSE Finish(token_amount, sol.v, new_supply, cp.v, np.v)])])])])

(***************************************************************************)
(* ExponentialCurve: price = a * e^(b * supply), approximated.             *)
(***************************************************************************)
ExponentialCurve_new(base_price, growth_factor, max_supply) ==
    IF BLt(base_price, MIN_PRICE) \/ growth_factor = << >>
       \/ max_supply = << >> \/ BGt(max_supply, MAX_SUPPLY)
    THEN [ok |-> FALSE, err |-> "InvalidBondingCurveParams"]
    ELSE [ok |-> TRUE, err |-> "", kind |-> "Exponential",
          base_price |-> base_price, growth_factor |-> growth_factor,
          max_supply |-> max_supply]

Exponential_get_current_price(c, current_supply) ==
    Let([gs \in {BMul(c.growth_factor, current_supply)} |->
    IF ~Fits64(gs) THEN Err("MathematicalOverflow")
    ELSE Let([exponent \in {BDiv(gs, PRECISION)} |->
         Let([sq \in {BMul(exponent, exponent)} |->
         Let([dbl \in {BMul(exponent, N(2))} |->
         Let([exp_approx \in {IF BLt(exponent, N(1000))
              THEN BAdd(BAdd(PRECISION, exponent),
                        IF Fits64(sq) THEN BDiv(sq, N(2)) ELSE << >>)
              ELSE BAdd(PRECISION, IF Fits64(dbl) THEN dbl ELSE U64_MAX)} |->
         Let([prod \in {BMul(c.base_price, exp_approx)} |->
    \* exponent <= u64::MAX / 10^9, so neither unchecked sum leaves u64.
    IF ~Fits64(prod) THEN Err("MathematicalOverflow")
    ELSE Ok(BMax(BDiv(prod, PRECISION), MIN_PRICE))])])])])])])

Exponential_calculate_buy(c, sol_amount, current_supply) ==
    IF sol_amount = << >> THEN CalcErr("InvalidAmount")
    ELSE IF BGt(current_supply, c.max_supply) THEN CalcErr("InvalidInitialSupply")
    ELSE Let([cp \in {Exponential_get_current_price(c, current_supply)} |->
    IF ~cp.ok THEN CalcErr(cp.err)
    ELSE Let([gsol \in {BMul(c.growth_factor, sol_amount)} |->
    IF ~Fits64(gsol) THEN CalcErr("MathematicalOverflow")
    ELSE Let([growth_rate \in {BDiv(gsol, PRECISION)} |->
         Let([pg \in {BMul(cp.v, growth_rate)} |->
         Let([average_price \in {BAdd(cp.v, BDiv(pg, N(2)))} |->
         Let([scaled \in {BMul(sol_amount, PRECISION)} |->
    IF ~Fits64(pg) \/ ~Fits64(average_price) \/ ~Fits64(scaled)
    THEN CalcErr("MathematicalOverflow")
    ELSE Let([token_amount \in {BDiv(scaled, average_price)} |->
         Let([new_supply \in {BAdd(current_supply, token_amount)} |->
    IF ~Fits64(new_supply) THEN CalcErr("MathematicalOverflow")
    ELSE IF BGt(new_supply, c.max_supply) THEN CalcErr("InvalidInitialSupply")
    ELSE Let([np \in {Exponential_get_current_price(c, new_supply)} |->
    IF ~np.ok THEN CalcErr(np.err)
    ELSE Finish(token_amount, sol_amount, new_supply, cp.v, np.v)])])])])])])])])])

Exponential_calculate_sell(c, token_amount, current_supply) ==
    IF token_amount = << >> THEN CalcErr("InvalidAmount")
    ELSE IF BGt(token_amount, current_supply) THEN CalcErr("InsufficientBalance")
    ELSE Let([new_supply \in {BSub(current_supply, token_amount)} |->
         Let([cp \in {Exponential_get_current_price(c, current_supply)} |->
         Let([np \in {Exponential_get_current_price(c, new_supply)} |->
    IF ~cp.ok THEN CalcErr(cp.err)
    ELSE IF ~np.ok THEN CalcErr(np.err)
    ELSE Let([sum \in {BAdd(cp.v, np.v)} |->
    IF ~Fits64(sum) THEN CalcErr("MathematicalOverflow")
    ELSE Let([average_price \in {BDiv(sum, N(2))} |->
         Let([sol_amount \in {BMul(token_amount, average_price)} |->
    IF ~Fits64(sol_amount) THEN CalcErr("MathematicalOverflow")
    ELSE Finish(token_amount, sol_amount, new_supply, cp.v, np.v)])])])])])])

(***************************************************************************)
(* SigmoidCurve: price = min + (max - min) / (1 + e^(-k (x - x0))).        *)
(***************************************************************************)
SigmoidCurve_new(min_price, max_price, steepness, midpoint, max_supply) ==
    IF BLt(min_price, MIN_PRICE) \/ BLe(max_price, min_price)
       \/ steepness = << >> \/ max_supply = << >>
    THEN [ok |-> FALSE, err |-> "InvalidBondingCurveParams"]
    ELSE [ok |-> TRUE, err |-> "", kind |-> "Sigmoid",
          min_price |-> min_price, max_price |-> max_price,
          steepness |-> steepness, midpoint |-> midpoint,
          max_supply |-> max_supply]

\* fn exp_approximation(x: i128) -> u128, the argument given as its sign and
\* its magnitude.
exp_approximation(negative, magnitude) ==
    Let([x \in {BMin(magnitude, BMul(N(10), PRECISION))} |->
    Let([t2 \in {BDiv(SatMulU128(x, x), BMul(PRECISION, N(2)))} |->
    Let([t3 \in {BDiv(SatMulU128(t2, x), BMul(PRECISION, N(3)))} |->
    Let([t4 \in {BDiv(SatMulU128(t3, x), BMul(PRECISION, N(4)))} |->
    Let([taylor \in {BMin(BAdd(BAdd(BAdd(BAdd(PRECISION, x), t2), t3), t4), U128_MAX)} |->
    IF x = << >> THEN PRECISION
    ELSE IF negative THEN BDiv(BMul(PRECISION, PRECISION), taylor)
    ELSE taylor])])])])])

Sigmoid_get_current_price(c, current_supply) ==
    Let([price_range \in {BSub(c.max_price, c.min_price)} |->
    Let([below \in {BLt(current_supply, c.midpoint)} |->
    Let([product \in {BMul(c.steepness, IF below THEN BSub(c.midpoint, current_supply)
                           ELSE BSub(current_supply, c.midpoint))} |->
    \* steepness * supply_diff in i128: the product is negative if below.
    IF BGt(product, IF below THEN BAdd(I128_MAX, N(1)) ELSE I128_MAX)
    THEN Err("MathematicalOverflow")
    \* exponent = -(steepness * supply_diff / PRECISION)
    ELSE Let([exp_value \in {exp_approximation(~below, BDiv(product, PRECISION))} |->
         Let([denominator \in {BAdd(PRECISION, exp_value)} |->
    IF ~Fits128(denominator) THEN Err("MathematicalOverflow")
    ELSE Let([price \in {BAdd(c.min_price,
                   AsU64(BDiv(BMul(price_range, PRECISION), denominator)))} |->
    IF ~Fits64(price) THEN Err("MathematicalOverflow")
    ELSE Ok(BMax(c.min_price, BMin(price, c.max_price)))])])])])])])

RECURSIVE Sigmoid_buy_loop(_, _, _, _, _)
\* The while loop of calculate_buy: <<error, total_tokens>>.
Sigmoid_buy_loop(c, step_size, remaining_sol, total_tokens, supply) ==
    IF remaining_sol = << >> \/ BGe(supply, c.max_supply)
    THEN <<"", total_tokens>>
    ELSE Let([step \in {BMin(step_size, BSub(c.max_supply, supply))} |->
         Let([price_at_step \in {Sigmoid_get_current_price(c, supply)} |->
    IF ~price_at_step.ok THEN <<price_at_step.err, << >> >>
    ELSE Let([cost \in {BMul(step, price_at_step.v)} |->
    IF BGt(cost, remaining_sol)
    THEN Let([scaled \in {BMul(remaining_sol, step)} |->
         Let([partial_tokens \in {AsU64(BDiv(scaled, cost))} |->
         IF ~Fits128(scaled) \/ ~Fits64(BAdd(total_tokens, partial_tokens))
            \/ ~Fits64(BAdd(supply, partial_tokens))
         THEN <<"MathematicalOverflow", << >> >>
         ELSE <<"", BAdd(total_tokens, partial_tokens)>>])])
    ELSE IF ~Fits64(BAdd(total_tokens, step)) \/ ~Fits64(BAdd(supply, step))
    THEN <<"MathematicalOverflow", << >> >>
    ELSE Sigmoid_buy_loop(c, step_size, BSub(remaining_sol, cost),
                         BAdd(total_tokens, step), BAdd(supply, step))])])])

Sigmoid_calculate_buy(c, sol_amount, current_supply) ==
    IF sol_amount = << >> THEN CalcErr("InvalidAmount")
    ELSE IF BGe(current_supply, c.max_supply) THEN CalcErr("InvalidInitialSupply")
    ELSE Let([cp \in {Sigmoid_get_current_price(c, current_supply)} |->
    IF ~cp.ok THEN CalcErr(cp.err)
    ELSE Let([r \in {Sigmoid_buy_loop(c, BMax(BDiv(current_supply, N(100)), N(1000)),
                               sol_amount, << >>, current_supply)} |->
    IF r[1] # "" THEN CalcErr(r[1])
    ELSE IF r[2] = << >> THEN CalcErr("InvalidAmount")
    ELSE Let([new_supply \in {BAdd(current_supply, r[2])} |->
    IF ~Fits64(new_supply) THEN CalcErr("MathematicalOverflow")
    ELSE Let([np \in {Sigmoid_get_current_price(c, new_supply)} |->
    IF ~np.ok THEN CalcErr(np.err)
    ELSE Finish(r[2], sol_amount, new_supply, cp.v, np.v)])])])])

Sigmoid_calculate_sell(c, token_amount, current_supply) ==
    IF token_amount = << >> THEN CalcErr("InvalidAmount")
    ELSE IF BGt(token_amount, current_supply) THEN CalcErr("InsufficientBalance")
    ELSE Let([new_supply \in {BSub(current_supply, token_amount)} |->
         Let([cp \in {Sigmoid_get_current_price(c, current_supply)} |->
         Let([np \in {Sigmoid_get_current_price(c, new_supply)} |->
    IF ~cp.ok THEN CalcErr(cp.err)
    ELSE IF ~np.ok THEN CalcErr(np.err)
    ELSE Let([sum \in {BAdd(cp.v, np.v)} |->
    IF ~Fits64(sum) THEN CalcErr("MathematicalOverflow")
    ELSE Finish(token_amount, AsU64(BMul(token_amount, BDiv(sum, N(2)))),
                new_supply, cp.v, np.v)])])])])

(***************************************************************************)
(* ConstantProductCurve: x * y = k.                                        *)
(***************************************************************************)
ConstantProductCurve_new(sol_reserve, token_reserve) ==
    IF sol_reserve = << >> \/ token_reserve = << >>
    THEN [ok |-> FALSE, err |-> "InvalidBondingCurveParams"]
    ELSE [ok |-> TRUE, err |-> "", kind |-> "ConstantProduct",
          sol_reserve |-> sol_reserve, token_reserve |-> token_reserve]

get_k(c) == SatMulU128(c.sol_reserve, c.token_reserve)

ConstantProduct_get_current_price(c, current_supply) ==
    Ok(BMax(AsU64(BDiv(BMul(c.sol_reserve, PRECISION), c.token_reserve)), MIN_PRICE))

\* A buy that rounds the token reserve it leaves up instead of down.
ConstantProduct_calculate_buy_rounding_up(c, sol_amount, current_supply) ==
    IF sol_amount = << >> THEN CalcErr("InvalidAmount")
    ELSE Let([new_sol_reserve \in {BAdd(c.sol_reserve, sol_amount)} |->
         Let([new_token_reserve \in {BAdd(BDiv(get_k(c), new_sol_reserve), N(1))} |->
    IF BLt(c.token_reserve, new_token_reserve) THEN CalcErr("InsufficientBalance")
    ELSE Let([tokens_out \in {BSub(c.token_reserve, new_token_reserve)} |->
    IF tokens_out = << >> THEN CalcErr("InvalidAmount")
    ELSE Finish(AsU64(tokens_out), sol_amount, AsU64(new_token_reserve),
                ConstantProduct_get_current_price(c, << >>).v,
                BMax(AsU64(BDiv(BMul(new_sol_reserve, PRECISION), new_token_reserve)),
                     MIN_PRICE))])])])

\* calculate_buy of a ConstantProductCurve with the SOL taken out of the
\* reserve instead of added to it: the tokens returned are those the larger
\* token reserve is above the old one.
ConstantProduct_calculate_buy_reserve_drained(c, sol_amount, current_supply) ==
    IF sol_amount = << >> THEN CalcErr("InvalidAmount")
    ELSE IF BGe(sol_amount, c.sol_reserve) THEN CalcErr("MathematicalOverflow")
    ELSE Let([new_sol_reserve \in {BSub(c.sol_reserve, sol_amount)} |->
         Let([new_token_reserve \in {BDiv(get_k(c), new_sol_reserve)} |->
         Let([tokens_out \in {BSub(new_token_reserve, c.token_reserve)} |->
    IF tokens_out = << >> THEN CalcErr("InvalidAmount")
    ELSE Finish(AsU64(tokens_out), sol_amount, AsU64(new_token_reserve),
                ConstantProduct_get_current_price(c, << >>).v,
                BMax(AsU64(BDiv(BMul(new_sol_reserve, PRECISION), new_token_reserve)),
                     MIN_PRICE))])])])

ConstantProduct_calculate_buy(c, sol_amount, current_supply) ==
    IF sol_amount = << >> THEN CalcErr("InvalidAmount")
    ELSE Let([new_sol_reserve \in {BAdd(c.sol_reserve, sol_amount)} |->
         Let([new_token_reserve \in {BDiv(get_k(c), new_sol_reserve)} |->
    IF BLt(c.token_reserve, new_token_reserve) THEN CalcErr("InsufficientBalance")
    ELSE Let([tokens_out \in {BSub(c.token_reserve, new_token_reserve)} |->
    IF tokens_out = << >> THEN CalcErr("InvalidAmount")
    ELSE Let([old_price \in {ConstantProduct_get_current_price(c, << >>)} |->
         Let([scaled \in {BMul(new_sol_reserve, PRECISION)} |->
    IF ~Fits128(scaled) \/ new_token_reserve = << >>
    THEN CalcErr("MathematicalOverflow")
    ELSE Finish(AsU64(tokens_out), sol_amount, AsU64(new_token_reserve),
                old_price.v,
                BMax(AsU64(BDiv(scaled, new_token_reserve)), MIN_PRICE))])])])])])

ConstantProduct_calculate_sell(c, token_amount, current_supply) ==
    IF token_amount = << >> THEN CalcErr("InvalidAmount")
    ELSE IF BGe(token_amount, c.token_reserve) THEN CalcErr("InsufficientBalance")
    ELSE Let([new_token_reserve \in {BAdd(c.token_reserve, token_amount)} |->
         Let([new_sol_reserve \in {BDiv(get_k(c), new_token_reserve)} |->
    IF BLt(c.sol_reserve, new_sol_reserve) THEN CalcErr("InsufficientBalance")
    ELSE Let([sol_out \in {BSub(c.sol_reserve, new_sol_reserve)} |->
    IF sol_out = << >> THEN CalcErr("InvalidAmount")
    ELSE Let([old_price \in {ConstantProduct_get_current_price(c, << >>)} |->
         Let([scaled \in {BMul(new_sol_reserve, PRECISION)} |->
    IF ~Fits128(scaled) THEN CalcErr("MathematicalOverflow")
    ELSE Finish(token_amount, AsU64(sol_out), AsU64(new_token_reserve),
                old_price.v,
                BMax(AsU64(BDiv(scaled, new_token_reserve)), MIN_PRICE))])])])])])

(***************************************************************************)
(* LogarithmicCurve: price = base_price + scale * ln(supply + 1).          *)
(***************************************************************************)
LogarithmicCurve_new(base_price, scale, max_supply) ==
    IF BLt(base_price, MIN_PRICE) \/ scale = << >> \/ max_supply = << >>
    THEN [ok |-> FALSE, err |-> "InvalidBondingCurveParams"]
    ELSE [ok |-> TRUE, err |-> "", kind |-> "Logarithmic",
          base_price |-> base_price, scale |-> scale,
          max_supply |-> max_supply]

RECURSIVE halve(_, _)
\* `while value >= 2 * PRECISION { value /= 2; power_of_two += 1 }`
halve(value, power_of_two) ==
    IF BGe(value, BMul(N(2), PRECISION))
    THEN halve(BDiv(value, N(2)), power_of_two + 1)
    ELSE <<value, power_of_two>>

\* fn ln_approximation(x: u64) -> Result<u64>.  `x + 1` and
\* `value - PRECISION` are unchecked: they panic in a build with overflow
\* checks and wrap in a build without.
ln_approximation(x) ==
    IF x = << >> THEN Ok(<< >>)
    ELSE IF x = U64_MAX /\ overflow_checks THEN Err("Panic")
    ELSE Let([h \in {halve(AsU64(BAdd(x, N(1))), 0)} |->
         Let([value \in {h[1]} |->
         Let([power_of_two \in {h[2]} |->
    IF BLt(value, PRECISION) /\ overflow_checks THEN Err("Panic")
    ELSE Let([difference \in {IF BGe(value, PRECISION) THEN BSub(value, PRECISION)
              ELSE BSub(TwoTo128, BSub(PRECISION, value))} |->
         \* the wrapped product; as i128 the quotient is never negative
         Let([x_normalized \in {BDiv(BMod(BMul(difference, PRECISION), TwoTo128), PRECISION)} |->
         Let([x2 \in {BDiv(SatMulI128(x_normalized, x_normalized), PRECISION)} |->
         Let([x3 \in {BDiv(SatMulI128(x2, x_normalized), PRECISION)} |->
         Let([x4 \in {BDiv(SatMulI128(x3, x_normalized), PRECISION)} |->
         \* result = x - x2/2 + x3/3 - x4/4 + LN_2 * power_of_two
         Let([plus \in {BAdd(BAdd(x_normalized, BDiv(x3, N(3))),
                   BMul(LN_2, N(power_of_two)))} |->
         Let([minus \in {BAdd(BDiv(x2, N(2)), BDiv(x4, N(4)))} |->
         IF BLe(plus, minus) THEN Ok(<< >>)
         ELSE Ok(AsU64(BSub(plus, minus)))])])])])])])])])])])

Logarithmic_get_current_price(c, current_supply) ==
    Let([ln_value \in {ln_approximation(current_supply)} |->
    IF ~ln_value.ok THEN Err(ln_value.err)
    ELSE Let([price \in {BAdd(c.base_price,
                   AsU64(BDiv(BMul(c.scale, ln_value.v), PRECISION)))} |->
         IF ~Fits64(price) THEN Err("MathematicalOverflow")
         ELSE Ok(BMax(price, MIN_PRICE))])])

RECURSIVE Logarithmic_buy_loop(_, _, _, _, _)
\* The while loop of calculate_buy: <<error, total_tokens>>.
Logarithmic_buy_loop(c, step_size, remaining_sol, total_tokens, supply) ==
    IF remaining_sol = << >> \/ BGe(supply, c.max_supply)
    THEN <<"", total_tokens>>
    ELSE Let([step \in {BMin(step_size, BSub(c.max_supply, supply))} |->
         Let([price_at_step \in {Logarithmic_get_current_price(c, supply)} |->
    IF ~price_at_step.ok THEN <<price_at_step.err, << >> >>
    ELSE Let([cost \in {BMul(step, price_at_step.v)} |->
    IF BGt(cost, remaining_sol)
    THEN Let([scaled \in {BMul(remaining_sol, step)} |->
         Let([partial_tokens \in {AsU64(BDiv(scaled, cost))} |->
         IF ~Fits128(scaled) \/ ~Fits64(BAdd(total_tokens, partial_tokens))
            \/ ~Fits64(BAdd(supply, partial_tokens))
         THEN <<"MathematicalOverflow", << >> >>
         ELSE <<"", BAdd(total_tokens, partial_tokens)>>])])
    ELSE IF ~Fits64(BAdd(total_tokens, step)) \/ ~Fits64(BAdd(supply, step))
    THEN <<"MathematicalOverflow", << >> >>
    ELSE Logarithmic_buy_loop(c, step_size, BSub(remaining_sol, cost),
                              BAdd(total_tokens, step), BAdd(supply, step))])])])

Logarithmic_calculate_buy(c, sol_amount, current_supply) ==
    IF sol_amount = << >> THEN CalcErr("InvalidAmount")
    ELSE IF BGe(current_supply, c.max_supply) THEN CalcErr("InvalidInitialSupply")
    ELSE Let([cp \in {Logarithmic_get_current_price(c, current_supply)} |->
    IF ~cp.ok THEN CalcErr(cp.err)
    ELSE Let([r \in {Logarithmic_buy_loop(c, BMax(BDiv(current_supply, N(100)), N(1000)),
                                   sol_amount, << >>, current_supply)} |->
    IF r[1] # "" THEN CalcErr(r[1])
    ELSE IF r[2] = << >> THEN CalcErr("InvalidAmount")
    ELSE Let([new_supply \in {BAdd(current_supply, r[2])} |->
    IF ~Fits64(new_supply) THEN CalcErr("MathematicalOverflow")
    ELSE Let([np \in {Logarithmic_get_current_price(c, new_supply)} |->
    IF ~np.ok THEN CalcErr(np.err)
    ELSE Finish(r[2], sol_amount, new_supply, cp.v, np.v)])])])])

Logarithmic_calculate_sell(c, token_amount, current_supply) ==
    IF token_amount = << >> THEN CalcErr("InvalidAmount")
    ELSE IF BGt(token_amount, current_supply) THEN CalcErr("InsufficientBalance")
    ELSE Let([new_supply \in {BSub(current_supply, token_amount)} |->
         Let([cp \in {Logarithmic_get_current_price(c, current_supply)} |->
         Let([np \in {Logarithmic_get_current_price(c, new_supply)} |->
    IF ~cp.ok THEN CalcErr(cp.err)
    ELSE IF ~np.ok THEN CalcErr(np.err)
    ELSE Let([sum \in {BAdd(cp.v, np.v)} |->
    IF ~Fits64(sum) THEN CalcErr("MathematicalOverflow")
    ELSE Finish(token_amount, AsU64(BMul(token_amount, BDiv(sum, N(2)))),
                new_supply, cp.v, np.v)])])])])

(***************************************************************************)
(* fn create_bonding_curve(curve: &BondingCurve): the curve of the market, *)
(* rebuilt from the stored parameters on every call.  The f64 field slope  *)
(* is kept as the integer slope * 10^9 that the conversions below take of  *)
(* it.                                                                     *)
(***************************************************************************)
CurveTypes == {"Linear", "Exponential", "Sigmoid", "ConstantProduct", "Logarithmic"}

\* `let max_supply = curve.initial_supply.saturating_mul(10)`
curve_max_supply(bc) == BMin(BMul(bc.initial_supply, N(10)), U64_MAX)

create_bonding_curve(bc) ==
    Let([max_supply \in {curve_max_supply(bc)} |->
    CASE bc.curve_type = "Linear" ->
           LinearCurve_new(bc.initial_price, bc.slope, max_supply)
      [] bc.curve_type = "Exponential" ->
           ExponentialCurve_new(bc.initial_price, bc.slope, max_supply)
      [] bc.curve_type = "Sigmoid" ->
           LET min_price == bc.initial_price
               price_multiplier ==
                   IF bc.slope = << >> THEN N(100)
                   ELSE BMax(BMin(BDiv(PRECISION, bc.slope), N(1000)), N(10))
               max_price == BMin(BMul(min_price, price_multiplier), U64_MAX)
               steepness == BMin(BMul(bc.slope, N(10)), U64_MAX)
               midpoint  == BDiv(max_supply, N(2))
           IN  SigmoidCurve_new(min_price, max_price, steepness, midpoint, max_supply)
      [] bc.curve_type = "ConstantProduct" ->
           LET token_reserve == bc.initial_supply
               sol_reserve ==
                   BMax(AsU64(BDiv(SatMulU128(bc.initial_price, token_reserve),
                                   PRECISION)),
                        N(1000000))
           IN  ConstantProductCurve_new(sol_reserve, token_reserve)
      [] bc.curve_type = "Logarithmic" ->
           LogarithmicCurve_new(bc.initial_price, BMin(BMul(bc.slope, N(10)), U64_MAX),
                                max_supply)])

\* trait BondingCurveMath, dispatched on the curve built.
calculate_buy(c, sol_amount, current_supply) ==
    CASE c.kind = "Linear" -> Linear_calculate_buy(c, sol_amount, current_supply)
      [] c.kind = "Exponential" -> Exponential_calculate_buy(c, sol_amount, current_supply)
      [] c.kind = "Sigmoid" -> Sigmoid_calculate_buy(c, sol_amount, current_supply)
      [] c.kind = "ConstantProduct" -> ConstantProduct_calculate_buy(c, sol_amount, current_supply)
      [] c.kind = "Logarithmic" -> Logarithmic_calculate_buy(c, sol_amount, current_supply)

calculate_sell(c, token_amount, current_supply) ==
    CASE c.kind = "Linear" -> Linear_calculate_sell(c, token_amount, current_supply)
      [] c.kind = "Exponential" -> Exponential_calculate_sell(c, token_amount, current_supply)
      [] c.kind = "Sigmoid" -> Sigmoid_calculate_sell(c, token_amount, current_supply)
      [] c.kind = "ConstantProduct" -> ConstantProduct_calculate_sell(c, token_amount, current_supply)
      [] c.kind = "Logarithmic" -> Logarithmic_calculate_sell(c, token_amount, current_supply)

get_current_price(c, current_supply) ==
    CASE c.kind = "Linear" -> Linear_get_current_price(c, current_supply)
      [] c.kind = "Exponential" -> Exponential_get_current_price(c, current_supply)
      [] c.kind = "Sigmoid" -> Sigmoid_get_current_price(c, current_supply)
      [] c.kind = "ConstantProduct" -> ConstantProduct_get_current_price(c, current_supply)
      [] c.kind = "Logarithmic" -> Logarithmic_get_current_price(c, current_supply)

\* pub fn calculate_buy_tokens(curve, sol_amount, current_supply)
calculate_buy_tokens(bc, sol_amount, current_supply) ==
    Let([c \in {create_bonding_curve(bc)} |->
    IF ~c.ok THEN CalcErr(c.err) ELSE calculate_buy(c, sol_amount, current_supply)])

\* pub fn calculate_sell_tokens(curve, token_amount, current_supply)
calculate_sell_tokens(bc, token_amount, current_supply) ==
    Let([c \in {create_bonding_curve(bc)} |->
    IF ~c.ok THEN CalcErr(c.err) ELSE calculate_sell(c, token_amount, current_supply)])

(***************************************************************************)
(* instructions/trade.rs: the helpers of buy_tokens and sell_tokens.       *)
(* Amounts (u64) are limb sequences; timestamps, basis points and the      *)
(* u32 trade counters stay far below their types' limits and are plain     *)
(* integers.                                                               *)
(***************************************************************************)

\* fn validate_buy_params(sol_amount, slippage_tolerance, platform_config)
validate_buy_params(sol_amount, slippage_tolerance, pc) ==
    IF sol_amount = << >> THEN Err("InvalidAmount")
    ELSE IF BGt(sol_amount, pc.security_params.max_trade_size_sol)
    THEN Err("MaxTradeSizeExceeded")
    ELSE IF slippage_tolerance > pc.security_params.max_slippage_bps
    THEN Err("InvalidSlippageTolerance")
    ELSE Ok(<< >>)

\* fn validate_sell_params(token_amount, slippage_tolerance, platform_config)
validate_sell_params(token_amount, slippage_tolerance, pc) ==
    IF token_amount = << >> THEN Err("InvalidAmount")
    ELSE IF slippage_tolerance > pc.security_params.max_slippage_bps
    THEN Err("InvalidSlippageTolerance")
    ELSE Ok(<< >>)

\* fn check_rate_limiting(user_profile, clock, platform_config)
check_rate_limiting(up, clk, pc) ==
    LET time_since_last_trade == clk - up.last_trade_timestamp
        cooldown_period       == pc.security_params.cooldown_period_seconds
    IN  IF ~(time_since_last_trade >= cooldown_period)
        THEN Err("TradeCooldownActive")
        ELSE IF ~(up.trades_last_minute < pc.security_params.rate_limit_per_minute)
        THEN Err("RateLimitExceeded")
        ELSE Ok(<< >>)

\* The slippage requirement without the comparison of the price impact.
check_slippage_minimum_only(amount_out, min_out, price_impact, slippage_tolerance) ==
    IF ~BGe(amount_out, min_out) THEN Err("SlippageExceeded") ELSE Ok(<< >>)

\* The slippage requirements of buy_tokens and of sell_tokens: the quoted
\* output against the caller's minimum, the quoted price impact against the
\* caller's tolerance.
check_slippage(amount_out, min_out, price_impact, slippage_tolerance) ==
    IF ~BGe(amount_out, min_out) THEN Err("SlippageExceeded")
    ELSE IF ~BLe(price_impact, N(slippage_tolerance)) THEN Err("SlippageExceeded")
    ELSE Ok(<< >>)

\* fn calculate_platform_fee(amount: u64, fee_rate: u16) -> Result<u64>
calculate_platform_fee(amount, fee_rate) ==
    LET product == BMul(amount, N(fee_rate))
    IN  IF ~Fits128(product) THEN Err("MathOverflow")
        ELSE Ok(AsU64(BDiv(product, N(10000))))

\* fn calculate_whale_tax(amount, user_profile, security_params)
calculate_whale_tax(amount, up, sp) ==
    LET is_whale == \/ BGe(amount, sp.whale_threshold_sol)
                    \/ BGe(up.total_volume_sol, sp.whale_threshold_sol)
    IN  IF is_whale
        THEN LET product == BMul(amount, N(sp.whale_tax_bps))
             IN  IF ~Fits128(product) THEN Err("MathOverflow")
                 ELSE Ok(AsU64(BDiv(product, N(10000))))
        ELSE Ok(<< >>)

\* The bookkeeping of a buy that adds the quote's new supply to the stored one.
update_token_info_after_buy_adding(ti, calculation, sol_amount, clk) ==
    Ok([ti EXCEPT
          !.current_supply     = BAdd(ti.current_supply, calculation.new_supply),
          !.circulating_supply = BAdd(ti.circulating_supply, calculation.token_amount),
          !.total_volume_sol   = BAdd(ti.total_volume_sol, sol_amount),
          !.total_trades       = ti.total_trades + 1,
          !.last_trade_at      = clk])

\* fn update_token_info_after_buy(token_info, calculation, sol_amount, clock)
update_token_info_after_buy(ti, calculation, sol_amount, clk) ==
    LET circulating == BAdd(ti.circulating_supply, calculation.token_amount)
        volume      == BAdd(ti.total_volume_sol, sol_amount)
    IN  IF ~Fits64(circulating) \/ ~Fits64(volume) THEN Err("MathOverflow")
        ELSE Ok([ti EXCEPT !.current_supply     = calculation.new_supply,
                           !.circulating_supply = circulating,
                           !.total_volume_sol   = volume,
                           !.total_trades       = ti.total_trades + 1,
                           !.last_trade_at      = clk])

\* The bookkeeping of a sell that leaves the sold tokens in circulation.
update_token_info_after_sell_circulating(ti, calculation, sol_amount, clk) ==
    Ok([ti EXCEPT
          !.current_supply   = calculation.new_supply,
          !.total_volume_sol = BAdd(ti.total_volume_sol, sol_amount),
          !.total_trades     = ti.total_trades + 1,
          !.last_trade_at    = clk])

\* fn update_token_info_after_sell(token_info, calculation, sol_amount, clock)
update_token_info_after_sell(ti, calculation, sol_amount, clk) ==
    LET volume == BAdd(ti.total_volume_sol, sol_amount)
    IN  IF BLt(ti.circulating_supply, calculation.token_amount) \/ ~Fits64(volume)
        THEN Err("MathOverflow")
        ELSE Ok([ti EXCEPT !.current_supply     = calculation.new_supply,
                           !.circulating_supply =
                               BSub(ti.circulating_supply, calculation.token_amount),
                           !.total_volume_sol   = volume,
                           !.total_trades       = ti.total_trades + 1,
                           !.last_trade_at      = clk])

\* fn update_user_profile_after_trade(user_profile, sol_amount, token_amount,
\* is_buy, clock).  last_trade_timestamp is assigned before the rate-limit
\* counter compares it with the minute before now.
update_user_profile_after_trade(up, sol_amount, token_amount, is_buy, clk) ==
    LET volume == BAdd(up.total_volume_sol, sol_amount)
        bought == IF is_buy THEN BAdd(up.total_tokens_bought, token_amount)
                  ELSE up.total_tokens_bought
        sold   == IF is_buy THEN up.total_tokens_sold
                  ELSE BAdd(up.total_tokens_sold, token_amount)
        minute_ago == clk - 60
        last_trade_timestamp == clk
    IN  IF ~Fits64(volume) \/ ~Fits64(bought) \/ ~Fits64(sold) THEN Err("MathOverflow")
        ELSE Ok([up EXCEPT !.total_volume_sol     = volume,
                           !.total_tokens_bought  = bought,
                           !.total_tokens_sold    = sold,
                           !.total_trades         = up.total_trades + 1,
                           !.last_trade_timestamp = last_trade_timestamp,
                           !.trades_last_minute   =
                               IF last_trade_timestamp > minute_ago
                               THEN up.trades_last_minute + 1 ELSE 1])

\* fn update_platform_stats_after_trade(platform_config, sol_amount, fees, clock)
update_platform_stats_after_trade(pc, sol_amount, fees, clk) ==
    LET volume    == BAdd(pc.total_volume_sol, sol_amount)
        collected == BAdd(pc.total_fees_collected, fees)
    IN  IF ~Fits64(volume) \/ ~Fits64(collected) THEN Err("MathOverflow")
        ELSE Ok([pc EXCEPT !.total_volume_sol     = volume,
                           !.total_fees_collected = collected,
                           !.total_trades         = pc.total_trades + 1,
                           !.last_updated         = clk])

\* fn check_graduation_criteria(token_info, platform_config): the two
\* products are checked; the branch taken when the threshold is reached is
\* empty, so token_info comes back as it went in.
check_graduation_criteria(ti, pc) ==
    LET market_cap           == BMul(ti.current_supply, ti.bonding_curve.initial_price)
        graduation_threshold == BMul(pc.graduation_fee, N(1000))
    IN  IF ~Fits64(market_cap) \/ ~Fits64(graduation_threshold) THEN Err("MathOverflow")
        ELSE IF BGe(market_cap, graduation_threshold) THEN Ok(ti)
        ELSE Ok(ti)

(***************************************************************************)
(* The instruction handlers.  A handler works on the accounts the runtime  *)
(* deserialised for it: the record acc below holds them as they are in     *)
(* memory.  A handler returns ok or an error, together with the accounts   *)
(* as it left them in memory and, for a trade, the quote it computed.      *)
(***************************************************************************)
Done(acc, calc)    == [ok |-> TRUE,  err |-> "", acc |-> acc, calc |-> calc]
Fail(acc, e, calc) == [ok |-> FALSE, err |-> e,  acc |-> acc, calc |-> calc]

\* No quote: the handler returned before it asked the curve.
NoQuote == CalcErr("NotQuoted")

\* system_program::transfer from the trader: fails on insufficient lamports.
system_transfer(lp, to, amount) ==
    IF BLt(lp.trader, amount) THEN Err("InsufficientLamports")
    ELSE Ok([lp EXCEPT !.trader = BSub(lp.trader, amount),
                       ![to]    = BAdd(lp[to], amount)])

\* pub fn buy_tokens(ctx, sol_amount, min_tokens_out, slippage_tolerance)
buy_tokens(acc, clk, sol_amount, min_tokens_out, slippage_tolerance) ==
    Let([a1 \in {[acc EXCEPT !.platform_config.reentrancy_guard = TRUE]} |->
    Let([pc \in {a1.platform_config} |->
    Let([valid \in {validate_buy_params(sol_amount, slippage_tolerance, pc)} |->
    IF ~valid.ok THEN Fail(a1, valid.err, NoQuote)
    ELSE Let([rate \in {check_rate_limiting(a1.user_profile, clk, pc)} |->
    IF ~rate.ok THEN Fail(a1, rate.err, NoQuote)
    ELSE Let([calculation \in {calculate_buy_tokens(a1.token_info.bonding_curve, sol_amount,
                                   a1.token_info.current_supply)} |->
    IF ~calculation.ok THEN Fail(a1, calculation.err, calculation)
    ELSE Let([slippage \in {check_slippage(calculation.token_amount, min_tokens_out,
                             calculation.price_impact, slippage_tolerance)} |->
    IF ~slippage.ok THEN Fail(a1, slippage.err, calculation)
    ELSE IF ~BGe(a1.tokens.bonding_curve_token_account, calculation.token_amount)
    THEN Fail(a1, "InsufficientLiquidity", calculation)
    ELSE Let([platform_fee \in {calculate_platform_fee(sol_amount, pc.fee_rate)} |->
         Let([whale_tax \in {calculate_whale_tax(sol_amount, a1.user_profile, pc.security_params)} |->
    IF ~platform_fee.ok THEN Fail(a1, platform_fee.err, calculation)
    ELSE IF ~whale_tax.ok THEN Fail(a1, whale_tax.err, calculation)
    ELSE Let([total_fees \in {BAdd(platform_fee.v, whale_tax.v)} |->
    IF ~Fits64(total_fees) THEN Fail(a1, "MathOverflow", calculation)
    ELSE IF BLt(sol_amount, total_fees) THEN Fail(a1, "InsufficientFunds", calculation)
    ELSE Let([net_sol_amount \in {BSub(sol_amount, total_fees)} |->
         \* 1. net SOL from the buyer into the vault
         Let([t1 \in {system_transfer(a1.lamports, "bonding_curve_vault", net_sol_amount)} |->
    IF ~t1.ok THEN Fail(a1, t1.err, calculation)
    ELSE Let([a2 \in {[a1 EXCEPT !.lamports = t1.v]} |->
         \* 2. the fees into the treasury
         Let([t2 \in {IF total_fees # << >>
              THEN system_transfer(a2.lamports, "treasury", total_fees)
              ELSE Ok(a2.lamports)} |->
    IF ~t2.ok THEN Fail(a2, t2.err, calculation)
    ELSE \* 3. the tokens to the buyer
         Let([a3 \in {[a2 EXCEPT
                 !.lamports = t2.v,
                 !.tokens.bonding_curve_token_account =
                     BSub(a2.tokens.bonding_curve_token_account,
                          calculation.token_amount),
                 !.tokens.trader = BAdd(a2.tokens.trader, calculation.token_amount)]} |->
         Let([ti \in {update_token_info_after_buy(a3.token_info, calculation, sol_amount, clk)} |->
    IF ~ti.ok THEN Fail(a3, ti.err, calculation)
    ELSE Let([up \in {update_user_profile_after_trade(a3.user_profile, sol_amount,
                                              calculation.token_amount, TRUE, clk)} |->
    IF ~up.ok THEN Fail(a3, up.err, calculation)
    ELSE Let([ps \in {update_platform_stats_after_trade(a3.platform_config, sol_amount,
                                                total_fees, clk)} |->
    IF ~ps.ok THEN Fail(a3, ps.err, calculation)
    ELSE Let([graduation \in {check_graduation_criteria(ti.v, ps.v)} |->
    IF ~graduation.ok
    THEN Fail([a3 EXCEPT !.token_info = ti.v, !.user_profile = up.v,
                         !.platform_config = ps.v],
              graduation.err, calculation)
    ELSE Done([a3 EXCEPT !.token_info      = graduation.v,
                         !.user_profile    = up.v,
                         !.platform_config = [ps.v EXCEPT !.reentrancy_guard = FALSE]],
              calculation)])])])])])])])])])])])])])])])])])])

\* pub fn sell_tokens(ctx, token_amount, min_sol_out, slippage_tolerance)
sell_tokens(acc, clk, token_amount, min_sol_out, slippage_tolerance) ==
    Let([a1 \in {[acc EXCEPT !.platform_config.reentrancy_guard = TRUE]} |->
    Let([pc \in {a1.platform_config} |->
    Let([valid \in {validate_sell_params(token_amount, slippage_tolerance, pc)} |->
    IF ~valid.ok THEN Fail(a1, valid.err, NoQuote)
    ELSE Let([rate \in {check_rate_limiting(a1.user_profile, clk, pc)} |->
    IF ~rate.ok THEN Fail(a1, rate.err, NoQuote)
    ELSE IF ~BGe(a1.tokens.trader, token_amount)
    THEN Fail(a1, "InsufficientBalance", NoQuote)
    ELSE Let([calculation \in {calculate_sell_tokens(a1.token_info.bonding_curve, token_amount,
                                    a1.token_info.current_supply)} |->
    IF ~calculation.ok THEN Fail(a1, calculation.err, calculation)
    ELSE Let([slippage \in {check_slippage(calculation.sol_amount, min_sol_out,
                             calculation.price_impact, slippage_tolerance)} |->
    IF ~slippage.ok THEN Fail(a1, slippage.err, calculation)
    ELSE IF ~BGe(a1.lamports.bonding_curve_vault, calculation.sol_amount)
    THEN Fail(a1, "InsufficientLiquidity", calculation)
    ELSE Let([platform_fee \in {calculate_platform_fee(calculation.sol_amount, pc.fee_rate)} |->
         Let([whale_tax \in {calculate_whale_tax(calculation.sol_amount, a1.user_profile,
                                  pc.security_params)} |->
    IF ~platform_fee.ok THEN Fail(a1, platform_fee.err, calculation)
    ELSE IF ~whale_tax.ok THEN Fail(a1, whale_tax.err, calculation)
    ELSE Let([total_fees \in {BAdd(platform_fee.v, whale_tax.v)} |->
    IF ~Fits64(total_fees) THEN Fail(a1, "MathOverflow", calculation)
    ELSE IF BLt(calculation.sol_amount, total_fees)
    THEN Fail(a1, "InsufficientFunds", calculation)
    ELSE Let([net_sol_amount \in {BSub(calculation.sol_amount, total_fees)} |->
         \* 1. the tokens from the seller into the curve's token account,
         \* 2. net SOL to the seller, 3. the fees to the treasury
         Let([a2 \in {[a1 EXCEPT
                 !.tokens.trader = BSub(a1.tokens.trader, token_amount),
                 !.tokens.bonding_curve_token_account =
                     BAdd(a1.tokens.bonding_curve_token_account, token_amount),
                 !.lamports.bonding_curve_vault =
                     BSub(a1.lamports.bonding_curve_vault, calculation.sol_amount),
                 !.lamports.trader   = BAdd(a1.lamports.trader, net_sol_amount),
                 !.lamports.treasury = BAdd(a1.lamports.treasury, total_fees)]} |->
         Let([ti \in {update_token_info_after_sell(a2.token_info, calculation,
                                           calculation.sol_amount, clk)} |->
    IF ~ti.ok THEN Fail(a2, ti.err, calculation)
    ELSE Let([up \in {update_user_profile_after_trade(a2.user_profile, calculation.sol_amount,
                                              token_amount, FALSE, clk)} |->
    IF ~up.ok THEN Fail(a2, up.err, calculation)
    ELSE Let([ps \in {update_platform_stats_after_trade(a2.platform_config,
                                                calculation.sol_amount,
                                                total_fees, clk)} |->
    IF ~ps.ok THEN Fail(a2, ps.err, calculation)
    ELSE Done([a2 EXCEPT !.token_info      = ti.v,
                         !.user_profile    = up.v,
                         !.platform_config = [ps.v EXCEPT !.reentrancy_guard = FALSE]],
              calculation)])])])])])])])])])])])])])])

\* pub fn graduate_to_dex(ctx, dex_type, minimum_liquidity_sol).  The pool
\* creation is a call into the DEX program: dex_program_ok says whether the
\* account passed as dex_program is the program of dex_type.  The SOL and
\* the tokens moved into the pool leave the accounts of this model.
graduate_to_dex(acc, clk, dex_program_ok, minimum_liquidity_sol) ==
    LET pc == acc.platform_config
        ti == acc.token_info
        time_since_creation == clk - ti.created_at
    IN
    IF ~BGe(ti.market_cap, pc.graduation_fee)
    THEN Fail(acc, "GraduationThresholdNotMet", NoQuote)
    ELSE IF ~BGe(ti.sol_reserves, minimum_liquidity_sol)
    THEN Fail(acc, "InsufficientLiquidity", NoQuote)
    ELSE IF ~(ti.token_reserves # << >>) THEN Fail(acc, "InsufficientLiquidity", NoQuote)
    ELSE IF ~(time_since_creation >= 3600) THEN Fail(acc, "TooEarlyForGraduation", NoQuote)
    ELSE IF ~dex_program_ok THEN Fail(acc, "InvalidDexProgram", NoQuote)
    ELSE LET fee == IF pc.graduation_fee # << >>
                    THEN system_transfer(acc.lamports, "treasury", pc.graduation_fee)
                    ELSE Ok(acc.lamports)
             sol_liquidity   == ti.sol_reserves
             token_liquidity == ti.token_reserves
         IN
    IF ~fee.ok THEN Fail(acc, fee.err, NoQuote)
    ELSE IF BLt(fee.v.bonding_curve_vault, sol_liquidity)
    THEN Fail(acc, IF overflow_checks THEN "Panic" ELSE "UnbalancedInstruction", NoQuote)
    ELSE IF BLt(acc.tokens.bonding_curve_token_account, token_liquidity)
    THEN Fail(acc, "TokenInsufficientFunds", NoQuote)
    ELSE LET moved == BAdd(pc.total_liquidity_moved, sol_liquidity) IN
    IF ~Fits64(moved) THEN Fail(acc, "MathOverflow", NoQuote)
    ELSE Done([acc EXCEPT
                 !.lamports = [fee.v EXCEPT !.bonding_curve_vault =
                                  BSub(fee.v.bonding_curve_vault, sol_liquidity)],
                 !.tokens.bonding_curve_token_account =
                     BSub(acc.tokens.bonding_curve_token_account, token_liquidity),
                 !.token_info = [ti EXCEPT !.is_graduated   = TRUE,
                                           !.sol_reserves   = << >>,
                                           !.token_reserves = << >>,
                                           !.is_tradeable   = FALSE],
                 !.platform_config =
                     [pc EXCEPT !.total_graduated_tokens = pc.total_graduated_tokens + 1,
                                !.total_liquidity_moved  = moved,
                                !.last_updated           = clk]],
              NoQuote)

\* pub fn update_security_params(ctx, new_params)
update_security_params(acc, clk, new_params) ==
    IF \/ ~(new_params.max_trade_size_sol # << >>
            /\ BLe(new_params.max_trade_size_sol, Lit(<<1, 0, 0, 0, 0>>)))
       \/ ~(new_params.whale_tax_bps <= 5000)
       \/ ~(new_params.max_slippage_bps <= 5000)
       \/ ~(new_params.whale_threshold_sol # << >>
            /\ BLe(new_params.whale_threshold_sol, Lit(<<100, 0, 0, 0>>)))
       \/ ~(new_params.rate_limit_per_minute >= 1
            /\ new_params.rate_limit_per_minute <= 1000)
       \/ ~(new_params.cooldown_period_seconds <= 3600)
    THEN Fail(acc, "InvalidSecurityParams", NoQuote)
    ELSE Done([acc EXCEPT !.platform_config.security_params = new_params,
                          !.platform_config.last_updated    = clk],
              NoQuote)

\* pub fn emergency_pause_platform(ctx, pause, reason); reason_len = reason.len()
emergency_pause_platform(acc, clk, pause, reason_len) ==
    LET old_state == acc.platform_config.emergency_paused IN
    IF ~(reason_len >= 10 /\ reason_len <= 500) THEN Fail(acc, "InvalidInput", NoQuote)
    ELSE IF ~(old_state # pause) THEN Fail(acc, "NoStateChange", NoQuote)
    ELSE Done([acc EXCEPT !.platform_config.emergency_paused = pause,
                          !.platform_config.last_updated     = clk],
              NoQuote)

\* pub fn ban_token(ctx, reason, is_permanent)
ban_token(acc, clk, reason_len) ==
    IF ~(~acc.token_info.is_frozen) THEN Fail(acc, "TokenAlreadyFrozen", NoQuote)
    ELSE IF ~(reason_len >= 10 /\ reason_len <= 300) THEN Fail(acc, "InvalidInput", NoQuote)
    ELSE Done([acc EXCEPT !.token_info.is_frozen    = TRUE,
                          !.token_info.is_tradeable = FALSE],
              NoQuote)

\* pub fn unban_token(ctx, reason)
unban_token(acc, clk, reason_len) ==
    IF ~acc.token_info.is_frozen THEN Fail(acc, "TokenNotFrozen", NoQuote)
    ELSE IF ~(reason_len >= 10 /\ reason_len <= 300) THEN Fail(acc, "InvalidInput", NoQuote)
    ELSE Done([acc EXCEPT !.token_info.is_frozen    = FALSE,
                          !.token_info.is_tradeable = TRUE],
              NoQuote)

(***************************************************************************)
(* The constraints of the account structs, checked in the order of their   *)
(* declaration before the handler runs: "" if all hold, else the error of  *)
(* the first that fails.                                                   *)
(***************************************************************************)
\* #[derive(Accounts)] pub struct BuyTokens
BuyTokens_constraints(acc) ==
    IF ~acc.token_info.is_tradeable THEN "TradingDisabled"
    ELSE IF acc.token_info.is_graduated THEN "TokenGraduated"
    ELSE IF acc.token_info.is_frozen THEN "TokenFrozen"
    ELSE IF acc.platform_config.emergency_paused THEN "PlatformPaused"
    ELSE IF acc.platform_config.trading_paused THEN "TradingPaused"
    ELSE IF acc.platform_config.reentrancy_guard THEN "ReentrancyError"
    ELSE ""

\* #[derive(Accounts)] pub struct SellTokens
SellTokens_constraints(acc) ==
    IF ~acc.token_info.is_tradeable THEN "TradingDisabled"
    ELSE IF acc.token_info.is_graduated THEN "TokenGraduated"
    ELSE IF acc.token_info.is_frozen THEN "TokenFrozen"
    ELSE IF ~(acc.tokens.trader # << >>) THEN "InsufficientBalance"
    ELSE IF acc.platform_config.emergency_paused THEN "PlatformPaused"
    ELSE IF acc.platform_config.trading_paused THEN "TradingPaused"
    ELSE IF acc.platform_config.reentrancy_guard THEN "ReentrancyError"
    ELSE ""

\* #[derive(Accounts)] pub struct GraduateToDex
GraduateToDex_constraints(acc) ==
    IF acc.token_info.is_graduated THEN "TokenAlreadyGraduated"
    ELSE IF ~acc.token_info.is_tradeable THEN "TradingDisabled"
    ELSE IF acc.token_info.is_frozen THEN "TokenFrozen"
    ELSE IF acc.platform_config.emergency_paused THEN "PlatformPaused"
    ELSE IF acc.platform_config.trading_paused THEN "TradingPaused"
    ELSE ""

\* A runtime that kept what a failed handler wrote.
Committed_without_rollback(acc, r) == r.acc

\* The accounts after an instruction: the entry points of #[program] return
\* the handler's Result, and the runtime keeps the accounts a handler wrote
\* only if the instruction returned Ok.
Committed(acc, r) == IF r.ok THEN r.acc ELSE acc

(***************************************************************************)
(* instructions/lp_token_lock.rs: the timelock of the LP tokens.           *)
(*                                                                         *)
(* l is the LpTokenLock account of one owner and one LP mint (l.lock,      *)
(* NoLockAccount before lock_lp_tokens created it) with the LP tokens of   *)
(* the owner's token account and of the vault.  Timestamps are seconds,    *)
(* far below i64::MAX: the checked additions of timestamps never fail.     *)
(***************************************************************************)
MIN_LOCK_DURATION == 86400
MAX_LOCK_DURATION == 31536000

NoLockAccount == [exists |-> FALSE]

LockDone(l)    == [ok |-> TRUE,  err |-> "", l |-> l]
LockFail(l, e) == [ok |-> FALSE, err |-> e,  l |-> l]

\* #[derive(Accounts)] pub struct LockLpTokens: lp_lock is created (init), the
\* DexListing of the token has its liquidity locked, and the owner holds the
\* LP tokens.
LockLpTokens_constraints(l, liquidity_locked, lp_amount) ==
    IF l.lock.exists THEN "AccountAlreadyInUse"
    ELSE IF ~liquidity_locked THEN "LiquidityNotLocked"
    ELSE IF ~BGe(l.owner_lp_account, lp_amount) THEN "InsufficientBalance"
    ELSE ""

\* pub fn lock_lp_tokens(ctx, lp_amount, lock_duration, enable_vesting)
lock_lp_tokens(l, clk, lp_amount, lock_duration, enable_vesting) ==
    IF lp_amount = << >> THEN LockFail(l, "InvalidAmount")
    ELSE IF ~(lock_duration >= MIN_LOCK_DURATION) THEN LockFail(l, "LockDurationTooShort")
    ELSE IF ~(lock_duration <= MAX_LOCK_DURATION) THEN LockFail(l, "LockDurationTooLong")
    ELSE LockDone([l EXCEPT
             !.owner_lp_account = BSub(l.owner_lp_account, lp_amount),
             !.lp_vault = BAdd(l.lp_vault, lp_amount),
             !.lock = [exists           |-> TRUE,
                       locked_amount    |-> lp_amount,
                       unlocked_amount  |-> << >>,
                       lock_start       |-> clk,
                       lock_end         |-> clk + lock_duration,
                       is_locked        |-> TRUE,
                       vesting_enabled  |-> enable_vesting,
                       last_unlock_time |-> clk]])

\* calculate_vested_amount without the subtraction of what was unlocked
\* before: the whole vested amount is available again at every call.
calculate_vested_amount_again(lock, current_time) ==
    IF current_time < lock.lock_start THEN Ok(<< >>)
    ELSE IF current_time >= lock.lock_end THEN Ok(lock.locked_amount)
    ELSE Ok(BMin(lock.locked_amount,
                 AsU64(BDiv(BMul(BAdd(lock.locked_amount, lock.unlocked_amount),
                                 N(current_time - lock.lock_start)),
                            N(lock.lock_end - lock.lock_start)))))

\* fn calculate_vested_amount(lp_lock: &LpTokenLock, current_time: i64)
calculate_vested_amount(lock, current_time) ==
    IF current_time < lock.lock_start THEN Ok(<< >>)
    ELSE IF current_time >= lock.lock_end THEN Ok(lock.locked_amount)
    ELSE Let([initial_total \in {BAdd(lock.locked_amount, lock.unlocked_amount)} |->
         IF ~Fits64(initial_total) THEN Err("MathOverflow")
         ELSE Let([vested_amount \in
                     {AsU64(BDiv(BMul(initial_total, N(current_time - lock.lock_start)),
                                 N(lock.lock_end - lock.lock_start)))} |->
              IF BLt(vested_amount, lock.unlocked_amount) THEN Err("MathOverflow")
              ELSE Ok(BSub(vested_amount, lock.unlocked_amount))])])

\* #[derive(Accounts)] pub struct UnlockLpTokens and pub struct ExtendLock: the
\* lock account of the signer exists, and is still locked.
OwnLock_constraints(l, signer_is_owner) ==
    IF ~l.lock.exists THEN "AccountNotInitialized"
    ELSE IF ~signer_is_owner THEN "Unauthorized"
    ELSE IF ~l.lock.is_locked THEN "AlreadyUnlocked"
    ELSE ""

\* The unlock that leaves is_locked set when nothing stays locked.
unlock_lp_tokens_still_locked(l, clk, amount) ==
    IF amount = << >> THEN LockFail(l, "InvalidAmount")
    ELSE Let([available_amount \in
                {IF l.lock.vesting_enabled THEN calculate_vested_amount(l.lock, clk)
                 ELSE IF ~(clk >= l.lock.lock_end) THEN Err("LockPeriodNotExpired")
                 ELSE Ok(l.lock.locked_amount)} |->
    IF ~available_amount.ok THEN LockFail(l, available_amount.err)
    ELSE IF ~BLe(amount, available_amount.v) THEN LockFail(l, "InsufficientBalance")
    ELSE IF BLt(l.lp_vault, amount) THEN LockFail(l, "TokenInsufficientFunds")
    ELSE IF BLt(l.lock.locked_amount, amount) THEN LockFail(l, "MathOverflow")
    ELSE IF ~Fits64(BAdd(l.lock.unlocked_amount, amount)) THEN LockFail(l, "MathOverflow")
    ELSE LockDone([l EXCEPT
             !.lp_vault = BSub(l.lp_vault, amount),
             !.owner_lp_account = BAdd(l.owner_lp_account, amount),
             !.lock = [l.lock EXCEPT
                         !.locked_amount    = BSub(l.lock.locked_amount, amount),
                         !.unlocked_amount  = BAdd(l.lock.unlocked_amount, amount),
                         !.last_unlock_time = clk]])])

\* pub fn unlock_lp_tokens(ctx, amount)
unlock_lp_tokens(l, clk, amount) ==
    IF amount = << >> THEN LockFail(l, "InvalidAmount")
    ELSE Let([available_amount \in
                {IF l.lock.vesting_enabled THEN calculate_vested_amount(l.lock, clk)
                 ELSE IF ~(clk >= l.lock.lock_end) THEN Err("LockPeriodNotExpired")
                 ELSE Ok(l.lock.locked_amount)} |->
    IF ~available_amount.ok THEN LockFail(l, available_amount.err)
    ELSE IF ~BLe(amount, available_amount.v) THEN LockFail(l, "InsufficientBalance")
    ELSE IF BLt(l.lp_vault, amount) THEN LockFail(l, "TokenInsufficientFunds")
    ELSE IF BLt(l.lock.locked_amount, amount) THEN LockFail(l, "MathOverflow")
    ELSE IF ~Fits64(BAdd(l.lock.unlocked_amount, amount)) THEN LockFail(l, "MathOverflow")
    ELSE LockDone([l EXCEPT
             !.lp_vault = BSub(l.lp_vault, amount),
             !.owner_lp_account = BAdd(l.owner_lp_account, amount),
             !.lock = [l.lock EXCEPT
                         !.locked_amount    = BSub(l.lock.locked_amount, amount),
                         !.unlocked_amount  = BAdd(l.lock.unlocked_amount, amount),
                         !.last_unlock_time = clk,
                         !.is_locked        = (BSub(l.lock.locked_amount, amount) # << >>)]])])

\* pub fn extend_lock(ctx, additional_duration)
extend_lock(l, clk, additional_duration) ==
    IF ~(additional_duration > 0) THEN LockFail(l, "InvalidLockDuration")
    ELSE IF ~(l.lock.lock_end + additional_duration - l.lock.lock_start
                  <= MAX_LOCK_DURATION)
    THEN LockFail(l, "LockDurationTooLong")
    ELSE LockDone([l EXCEPT !.lock.lock_end = l.lock.lock_end + additional_duration])

\* The accounts after a lock instruction: kept only if it returned Ok.
LockCommitted(l, r) == IF r.ok THEN r.l ELSE l

\* No LpTokenLock account, and the owner's LP tokens in the owner's account.
NoLpLock ==
    [lock |-> NoLockAccount, lp_vault |-> << >>, owner_lp_account |-> N(1000),
     last |-> [op |-> "none", ok |-> TRUE, err |-> ""]]

(***************************************************************************)
(* The state machine: one platform, one market, one trader.                *)
(***************************************************************************)

\* impl Default for SecurityParams: the fields the instructions read.
DefaultSecurityParams ==
    [max_trade_size_sol      |-> Lit(<<100, 0, 0, 0>>),
     whale_threshold_sol     |-> Lit(<<10, 0, 0, 0>>),
     whale_tax_bps           |-> 200,
     cooldown_period_seconds |-> 10,
     rate_limit_per_minute   |-> 10,
     max_slippage_bps        |-> 1000]

\* Parameters an administrator may set instead: a small trade size, a whale
\* threshold of one SOL, the largest slippage allowed, two trades per minute
\* and no cooldown.
TightSecurityParams ==
    [max_trade_size_sol      |-> N(100),
     whale_threshold_sol     |-> N(1000000000),
     whale_tax_bps           |-> 5000,
     cooldown_period_seconds |-> 0,
     rate_limit_per_minute   |-> 2,
     max_slippage_bps        |-> 5000]

\* Parameters update_security_params refuses: a slippage limit above 50%.
RefusedSecurityParams == [TightSecurityParams EXCEPT !.max_slippage_bps = 5001]

SecurityParamsInputs ==
    {DefaultSecurityParams, TightSecurityParams, RefusedSecurityParams}

\* impl BondingCurve: pub fn new(curve_type, initial_price,
\* graduation_threshold, slope, initial_supply)
BondingCurve_new(curve_type, initial_price, graduation_threshold, slope, initial_supply) ==
    [curve_type           |-> curve_type,
     initial_price        |-> initial_price,
     current_price        |-> initial_price,
     graduation_threshold |-> graduation_threshold,
     slope                |-> slope,
     initial_supply       |-> initial_supply]

\* The BondingCurve parameters of the market created for each curve type.
MarketCurve(t) ==
    CASE t = "Linear" ->
           BondingCurve_new(t, N(1000), N(1000000), N(1),
                            N(1000000))
      [] t = "Exponential" ->
           BondingCurve_new(t, N(1000), N(1000000), N(1000),
                            Lit(<<1, 0, 0, 0, 0>>))
      [] t = "Sigmoid" ->
           BondingCurve_new(t, N(1000), N(1000000), N(1000000),
                            N(1000000000))
      [] t = "ConstantProduct" ->
           BondingCurve_new(t, N(1000), N(1000000), N(1),
                            N(1000000000))
      [] t = "Logarithmic" ->
           BondingCurve_new(t, N(1000), N(1000000), N(1000000),
                            Lit(<<2, 0, 0, 0>>))

\* The SOL amount of the buys tried on the market of each curve type.
BuyAmount(t) ==
    CASE t = "Linear"          -> N(1000000000)
      [] t = "Exponential"     -> N(1000000)
      [] t = "Sigmoid"         -> N(1000000000)
      [] t = "ConstantProduct" -> N(10000)
      [] t = "Logarithmic"     -> N(1000000000)

\* pub fn initialize_platform(ctx, fee_rate, treasury, security_params)
initialize_platform(fee_rate, security_params, clk) ==
    [fee_rate               |-> fee_rate,
     emergency_paused       |-> FALSE,
     trading_paused         |-> FALSE,
     reentrancy_guard       |-> FALSE,
     total_volume_sol       |-> << >>,
     total_fees_collected   |-> << >>,
     total_trades           |-> 0,
     total_graduated_tokens |-> 0,
     total_liquidity_moved  |-> << >>,
     graduation_fee         |-> N(1000000000),
     security_params        |-> security_params,
     last_updated           |-> clk]

\* pub fn create_token(ctx, params): the fields it assigns; the others of
\* the freshly allocated account are zero.
create_token(bc, clk) ==
    [bonding_curve       |-> bc,
     sol_reserves        |-> << >>,
     token_reserves      |-> << >>,
     current_supply      |-> bc.initial_supply,
     circulating_supply  |-> << >>,
     total_supply        |-> << >>,
     market_cap          |-> << >>,
     graduation_eligible |-> FALSE,
     is_graduated        |-> FALSE,
     is_frozen           |-> FALSE,
     is_tradeable        |-> TRUE,
     created_at          |-> clk,
     last_trade_at       |-> 0,
     total_volume_sol    |-> << >>,
     total_trades        |-> 0]

\* The trader's UserProfile as init_if_needed allocates it.
NewUserProfile ==
    [total_volume_sol     |-> << >>,
     total_trades         |-> 0,
     total_tokens_bought  |-> << >>,
     total_tokens_sold    |-> << >>,
     last_trade_timestamp |-> 0,
     trades_last_minute   |-> 0]

\* The record `last` of an instruction and its result.
Outcome(op, r, amount, min_out, slippage_tolerance) ==
    [op |-> op, ok |-> r.ok, err |-> r.err, amount |-> amount, min_out |-> min_out,
     slippage_tolerance |-> slippage_tolerance, calc |-> r.calc]

NoInstruction ==
    [op |-> "none", ok |-> TRUE, err |-> "", amount |-> << >>, min_out |-> << >>,
     slippage_tolerance |-> 0, calc |-> NoQuote]

Accounts ==
    [platform_config |-> platform_config, token_info |-> token_info,
     user_profile |-> user_profile, lamports |-> lamports, tokens |-> tokens]

\* The accounts of the next state are those the instruction left committed.
Commit(acc) ==
    /\ platform_config' = acc.platform_config
    /\ token_info'      = acc.token_info
    /\ user_profile'    = acc.user_profile
    /\ lamports'        = acc.lamports
    /\ tokens'          = acc.tokens

\* The time of creation, and of the first state: one hour later.
CreatedAt == 1000
StartTime == CreatedAt + 3600
\* Tick moves the clock by TickSeconds, at most MaxTicks times.
TickSeconds == 10
MaxTicks == 1

Init ==
    /\ overflow_checks \in BOOLEAN
    /\ platform_config = initialize_platform(100, DefaultSecurityParams, CreatedAt)
    /\ \E t \in CurveTypes : token_info = create_token(MarketCurve(t), CreatedAt)
    /\ user_profile = NewUserProfile
    /\ lamports = [bonding_curve_vault |-> << >>, treasury |-> << >>,
                   trader |-> Lit(<<500, 0, 0, 0>>)]
    /\ tokens = [bonding_curve_token_account |-> token_info.bonding_curve.initial_supply,
                 trader |-> << >>, mint_supply |-> token_info.bonding_curve.initial_supply]
    /\ clock = StartTime
    /\ last = NoInstruction
    /\ probe = << >>
    /\ market_b = << >>
    /\ lp_lock = NoLpLock

\* The requests of the trader: <<amount, minimum out, slippage tolerance>>.
BuyRequests ==
    LET A == BuyAmount(token_info.bonding_curve.curve_type) IN
    { <<A, << >>, 1000>>,        \* a plain buy
      <<A, << >>, 0>>,           \* no price impact tolerated
      <<A, U64_MAX, 1000>>,      \* a minimum no quote reaches
      <<A, << >>, 5001>>,        \* a tolerance above every configured limit
      <<(<< >>), << >>, 1000>> } \* nothing to spend

SellRequests ==
    LET all  == tokens.trader
        half == BDiv(tokens.trader, N(2))
    IN
    { <<half, << >>, 1000>>,
      <<all, << >>, 1000>>,
      <<half, << >>, 0>>,
      <<half, U64_MAX, 1000>>,
      <<half, << >>, 5001>>,
      <<BAdd(all, N(1)), << >>, 1000>>,
      <<token_info.bonding_curve.initial_supply, << >>, 1000>>,
      <<BAdd(token_info.current_supply, N(1)), << >>, 1000>>,
      <<(<< >>), << >>, 1000>> }

ReasonLengths == {4, 20}

\* No instruction is waiting for its result to be read.
Idle == last.op = "none"

\* An instruction as the runtime executes it: the constraints of the account
\* struct first, and the handler only if none of them refuses.
Dispatch(acc, refused, handled) ==
    IF refused # "" THEN Fail(acc, refused, NoQuote) ELSE handled

BuyTokens ==
    /\ Idle
    /\ \E req \in BuyRequests :
       \E r \in {Dispatch(Accounts, BuyTokens_constraints(Accounts),
                          buy_tokens(Accounts, clock, req[1], req[2], req[3]))} :
           /\ Commit(Committed(Accounts, r))
           /\ last' = Outcome("buy_tokens", r, req[1], req[2], req[3])
           /\ UNCHANGED <<overflow_checks, clock, probe, market_b, lp_lock>>

SellTokens ==
    /\ Idle
    /\ \E req \in SellRequests :
       \E r \in {Dispatch(Accounts, SellTokens_constraints(Accounts),
                          sell_tokens(Accounts, clock, req[1], req[2], req[3]))} :
           /\ Commit(Committed(Accounts, r))
           /\ last' = Outcome("sell_tokens", r, req[1], req[2], req[3])
           /\ UNCHANGED <<overflow_checks, clock, probe, market_b, lp_lock>>

GraduateToDex ==
    /\ Idle
    /\ \E dex_program_ok \in BOOLEAN :
       \E r \in {Dispatch(Accounts, GraduateToDex_constraints(Accounts),
                          graduate_to_dex(Accounts, clock, dex_program_ok, << >>))} :
           /\ Commit(Committed(Accounts, r))
           /\ last' = Outcome("graduate_to_dex", r, << >>, << >>, 0)
           /\ UNCHANGED <<overflow_checks, clock, probe, market_b, lp_lock>>

UpdateSecurityParams ==
    /\ Idle
    /\ \E new_params \in SecurityParamsInputs :
       \E r \in {update_security_params(Accounts, clock, new_params)} :
           /\ Commit(Committed(Accounts, r))
           /\ last' = Outcome("update_security_params", r, << >>, << >>, 0)
           /\ UNCHANGED <<overflow_checks, clock, probe, market_b, lp_lock>>

EmergencyPausePlatform ==
    /\ Idle
    /\ \E pause \in BOOLEAN, reason_len \in ReasonLengths :
       \E r \in {emergency_pause_platform(Accounts, clock, pause, reason_len)} :
           /\ Commit(Committed(Accounts, r))
           /\ last' = Outcome("emergency_pause_platform", r, << >>, << >>, 0)
           /\ UNCHANGED <<overflow_checks, clock, probe, market_b, lp_lock>>

BanToken ==
    /\ Idle
    /\ \E reason_len \in ReasonLengths :
       \E r \in {ban_token(Accounts, clock, reason_len)} :
           /\ Commit(Committed(Accounts, r))
           /\ last' = Outcome("ban_token", r, << >>, << >>, 0)
           /\ UNCHANGED <<overflow_checks, clock, probe, market_b, lp_lock>>

UnbanToken ==
    /\ Idle
    /\ \E reason_len \in ReasonLengths :
       \E r \in {unban_token(Accounts, clock, reason_len)} :
           /\ Commit(Committed(Accounts, r))
           /\ last' = Outcome("unban_token", r, << >>, << >>, 0)
           /\ UNCHANGED <<overflow_checks, clock, probe, market_b, lp_lock>>
\* The caller takes note of the result; the next instruction comes after.
Observe ==
    /\ ~Idle
    /\ last' = NoInstruction
    /\ UNCHANGED <<overflow_checks, platform_config, token_info, user_profile,
                   lamports, tokens, clock, probe, market_b, lp_lock>>

\* Time passes between instructions.
Tick ==
    /\ Idle
    /\ clock < StartTime + MaxTicks * TickSeconds
    /\ clock' = clock + TickSeconds
    /\ UNCHANGED <<overflow_checks, platform_config, token_info, user_profile,
                   lamports, tokens, last, probe, market_b, lp_lock>>

Next ==
    \/ BuyTokens
    \/ SellTokens
    \/ GraduateToDex
    \/ UpdateSecurityParams
    \/ EmergencyPausePlatform
    \/ BanToken
    \/ UnbanToken
    \/ Observe
    \/ Tick

Spec == Init /\ [][Next]_vars

(***************************************************************************)
(* The quotes of the curves as pure functions: a second specification, in  *)
(* which a market is created and the curve is only asked, never traded on. *)
(* probe holds the answers until they are read.                            *)
(***************************************************************************)

\* pub fn get_current_token_price(curve, current_supply)
get_current_token_price(bc, current_supply) ==
    Let([c \in {create_bonding_curve(bc)} |->
    IF ~c.ok THEN Err(c.err) ELSE get_current_price(c, current_supply)])

\* get_market_cap with a product that wraps to 64 bits instead of failing.
get_market_cap_wrapping(c, current_supply) ==
    Let([price \in {get_current_price(c, IF c.kind = "ConstantProduct" THEN << >>
                                         ELSE current_supply)} |->
    IF ~price.ok THEN Err(price.err)
    ELSE Ok(AsU64(BMul(IF c.kind = "ConstantProduct" THEN c.token_reserve
                       ELSE current_supply, price.v)))])

\* fn get_market_cap(&self, current_supply): the price at current_supply
\* times current_supply, checked; a ConstantProductCurve multiplies its token
\* reserve by its price instead.
get_market_cap(c, current_supply) ==
    Let([price \in {get_current_price(c, IF c.kind = "ConstantProduct" THEN << >>
                                         ELSE current_supply)} |->
    IF ~price.ok THEN Err(price.err)
    ELSE Let([cap \in {BMul(IF c.kind = "ConstantProduct" THEN c.token_reserve
                            ELSE current_supply, price.v)} |->
         IF Fits64(cap) THEN Ok(cap) ELSE Err("MathematicalOverflow")])])

\* pub fn get_market_capitalization(curve, current_supply)
get_market_capitalization(bc, current_supply) ==
    Let([c \in {create_bonding_curve(bc)} |->
    IF ~c.ok THEN Err(c.err) ELSE get_market_cap(c, current_supply)])

\* The sale of the tokens a buy returned, quoted right after the buy, as the
\* round-trip tests of the curves quote it: at the buy's new supply, and for
\* a ConstantProductCurve on the curve rebuilt with the reserves after the buy.
sell_after_buy(bc, sol_amount, buy) ==
    Let([c \in {create_bonding_curve(bc)} |->
    IF ~c.ok THEN CalcErr(c.err)
    ELSE IF c.kind # "ConstantProduct"
    THEN calculate_sell(c, buy.token_amount, buy.new_supply)
    ELSE Let([curve_after_buy \in
                  {ConstantProductCurve_new(BAdd(c.sol_reserve, sol_amount),
                                            BSub(c.token_reserve, buy.token_amount))} |->
         IF ~curve_after_buy.ok THEN CalcErr(curve_after_buy.err)
         ELSE calculate_sell(curve_after_buy, buy.token_amount,
                             curve_after_buy.token_reserve)])])

\* A linear market of 10^9 tokens: at its largest supply the price times the
\* supply is above u64::MAX.
LinearLargeSupply ==
    BondingCurve_new("Linear", N(1000), N(1000000), N(1),
                            N(1000000000))

\* An exponential market with a price of 10^6 lamports.
ExponentialHighPrice ==
    BondingCurve_new("Exponential", N(1000000), N(1000000), N(1000),
                            N(500000000))

\* A constant-product market of 2500 tokens.
ConstantProductSmall ==
    BondingCurve_new("ConstantProduct", N(1000), N(1000000), N(1),
                            N(2500))

\* The markets whose curves are asked.
QuoteCurves ==
    {MarketCurve(t) : t \in CurveTypes}
        \cup {ExponentialHighPrice, ConstantProductSmall, LinearLargeSupply}

\* The supplies the curve of bc is asked at: around the initial supply,
\* around twice the initial supply, and the curve's maximum.
QuoteSupplies(bc) ==
    Let([n \in {bc.initial_supply} |->
    Let([d \in {BMul(n, N(2))} |->
    {BSub(n, N(2)), BSub(n, N(1)), n, BSub(d, N(2)), BSub(d, N(1)), d,
     curve_max_supply(bc)}])])

\* The SOL amounts of the buys quoted.
QuoteAmounts(bc) ==
    {BuyAmount(bc.curve_type), BDiv(BuyAmount(bc.curve_type), N(10)), N(1000000)}

InitCurve ==
    /\ overflow_checks \in BOOLEAN
    /\ platform_config = initialize_platform(100, DefaultSecurityParams, CreatedAt)
    /\ \E bc \in QuoteCurves : token_info = create_token(bc, CreatedAt)
    /\ user_profile = NewUserProfile
    /\ lamports = [bonding_curve_vault |-> << >>, treasury |-> << >>,
                   trader |-> Lit(<<500, 0, 0, 0>>)]
    /\ tokens = [bonding_curve_token_account |-> token_info.bonding_curve.initial_supply,
                 trader |-> << >>, mint_supply |-> token_info.bonding_curve.initial_supply]
    /\ clock = StartTime
    /\ last = NoInstruction
    /\ probe = << >>
    /\ market_b = << >>
    /\ lp_lock = NoLpLock

\* The price at two supplies s1 < s2 of the market's curve.
QuotePrice ==
    /\ probe = << >>
    /\ \E s1 \in QuoteSupplies(token_info.bonding_curve),
          s2 \in QuoteSupplies(token_info.bonding_curve) :
          /\ BLt(s1, s2)
          /\ probe' = [op |-> "price", s1 |-> s1, s2 |-> s2,
                       p1 |-> get_current_token_price(token_info.bonding_curve, s1),
                       p2 |-> get_current_token_price(token_info.bonding_curve, s2)]
    /\ UNCHANGED <<overflow_checks, platform_config, token_info, user_profile,
                   lamports, tokens, clock, last, market_b, lp_lock>>

\* A buy at a supply, and the sale of the tokens it returned.
QuoteRoundTrip ==
    /\ probe = << >>
    /\ \E sol_amount \in QuoteAmounts(token_info.bonding_curve),
          s \in {token_info.bonding_curve.initial_supply,
                 BMul(token_info.bonding_curve.initial_supply, N(2))} :
       \E buy \in {calculate_buy_tokens(token_info.bonding_curve, sol_amount, s)} :
          probe' = [op |-> "round_trip", sol_amount |-> sol_amount, supply |-> s,
                    buy |-> buy,
                    sell |-> IF buy.ok
                             THEN sell_after_buy(token_info.bonding_curve, sol_amount, buy)
                             ELSE NoQuote]
    /\ UNCHANGED <<overflow_checks, platform_config, token_info, user_profile,
                   lamports, tokens, clock, last, market_b, lp_lock>>

\* The prices whose impact is asked.
ImpactPrices == {<< >>, N(1), N(1000), N(1500), N(8000), N(1000000), U64_MAX}

\* The price impact of a move from one price to another.
QuoteImpact ==
    /\ probe = << >>
    /\ \E old_price \in ImpactPrices, new_price \in ImpactPrices :
          probe' = [op |-> "impact", old_price |-> old_price, new_price |-> new_price,
                    impact |-> calculate_price_impact(old_price, new_price)]
    /\ UNCHANGED <<overflow_checks, platform_config, token_info, user_profile,
                   lamports, tokens, clock, last, market_b, lp_lock>>

\* The supplies at which the curve has no capacity left, or room for 1000
\* tokens, and the amounts offered for them.
CapacitySupplies(bc) ==
    {curve_max_supply(bc), BSub(curve_max_supply(bc), N(1000))}

CapacityAmounts == {N(1000), N(1000000), Lit(<<100, 0, 0, 0>>)}

\* A buy at the end of the curve.
QuoteBuyAtCapacity ==
    /\ probe = << >>
    /\ \E sol_amount \in CapacityAmounts, s \in CapacitySupplies(token_info.bonding_curve) :
          probe' = [op |-> "capacity", sol_amount |-> sol_amount, supply |-> s,
                    buy |-> calculate_buy_tokens(token_info.bonding_curve, sol_amount, s)]
    /\ UNCHANGED <<overflow_checks, platform_config, token_info, user_profile,
                   lamports, tokens, clock, last, market_b, lp_lock>>

\* The integral of the linear price a + b*x of the market over its supplies.
QuoteIntegral ==
    /\ probe = << >>
    /\ \E from \in {<< >>, token_info.bonding_curve.initial_supply},
          to \in {token_info.bonding_curve.initial_supply,
                  curve_max_supply(token_info.bonding_curve)} :
          probe' = [op |-> "integral", a |-> token_info.bonding_curve.initial_price,
                    b |-> N(1), from |-> from, to |-> to,
                    result |-> integrate_linear(token_info.bonding_curve.initial_price,
                                                N(1), from, to)]
    /\ UNCHANGED <<overflow_checks, platform_config, token_info, user_profile,
                   lamports, tokens, clock, last, market_b, lp_lock>>

\* The supplies at which one price is asked: none, the first tokens, the
\* supplies around PRECISION, and the ends of the curve.
PriceSupplies(bc) ==
    {<< >>, N(1), N(10000), N(999999998), N(999999999), bc.initial_supply,
     curve_max_supply(bc)}

\* The price of the market's curve at one supply.
QuotePriceAt ==
    /\ probe = << >>
    /\ \E s \in PriceSupplies(token_info.bonding_curve) :
          /\ BLe(s, curve_max_supply(token_info.bonding_curve))
          /\ probe' = [op |-> "price_at", supply |-> s,
                       price |-> get_current_token_price(token_info.bonding_curve, s)]
    /\ UNCHANGED <<overflow_checks, platform_config, token_info, user_profile,
                   lamports, tokens, clock, last, market_b, lp_lock>>

\* The market capitalisation of the market's curve at one supply, next to the
\* price the curve reports there.
QuoteMarketCap ==
    /\ probe = << >>
    /\ \E s \in PriceSupplies(token_info.bonding_curve) :
          /\ BLe(s, curve_max_supply(token_info.bonding_curve))
          /\ probe' = [op |-> "market_cap", supply |-> s,
                       price |-> get_current_token_price(token_info.bonding_curve,
                                     IF token_info.bonding_curve.curve_type = "ConstantProduct"
                                     THEN << >> ELSE s),
                       cap |-> get_market_capitalization(token_info.bonding_curve, s)]
    /\ UNCHANGED <<overflow_checks, platform_config, token_info, user_profile,
                   lamports, tokens, clock, last, market_b, lp_lock>>

\* The LinearCurve of the curve's own tests, LinearCurve::new(1000, 10, 1000000).
LinearTestCurve == LinearCurve_new(N(1000), N(10), N(1000000))

\* The supplies and the SOL amounts of the Linear buys quoted.
LinearBuySupplies == {<< >>, N(100), N(1000), N(500000)}

LinearBuyAmounts == {N(1), N(10000), N(100000), N(1000000000)}

\* A buy quoted by a LinearCurve: the curve of the tests, or the curve of a
\* Linear market.
QuoteLinearBuy ==
    /\ probe = << >>
    /\ token_info.bonding_curve.curve_type = "Linear"
    /\ \E c \in {LinearTestCurve, create_bonding_curve(token_info.bonding_curve)},
          s \in LinearBuySupplies, sol_amount \in LinearBuyAmounts :
          probe' = [op |-> "linear_buy", curve |-> c, supply |-> s,
                    sol_amount |-> sol_amount,
                    buy |-> Linear_calculate_buy(c, sol_amount, s)]
    /\ UNCHANGED <<overflow_checks, platform_config, token_info, user_profile,
                   lamports, tokens, clock, last, market_b, lp_lock>>

\* A ConstantProductCurve with reserves of 10^9 lamports and 10^9 tokens.
ConstantProductEvenReserves == ConstantProductCurve_new(N(1000000000), N(1000000000))

\* The SOL amounts of the two buys quoted against the same reserves.
TwoBuysAmounts ==
    {N(1), N(2), N(31624), N(40000), N(100000000), N(1000000000)}

\* Two buys of different SOL amounts quoted by a ConstantProductCurve
\* against the same reserves: the curve of even reserves, or the curve of a
\* ConstantProduct market.
QuoteTwoBuys ==
    /\ probe = << >>
    /\ token_info.bonding_curve.curve_type = "ConstantProduct"
    /\ \E c \in {ConstantProductEvenReserves,
                  create_bonding_curve(token_info.bonding_curve)},
          a1 \in TwoBuysAmounts, a2 \in TwoBuysAmounts :
          /\ BLt(a1, a2)
          /\ probe' = [op |-> "two_buys", curve |-> c, a1 |-> a1, a2 |-> a2,
                       buy1 |-> ConstantProduct_calculate_buy(c, a1, << >>),
                       buy2 |-> ConstantProduct_calculate_buy(c, a2, << >>)]
    /\ UNCHANGED <<overflow_checks, platform_config, token_info, user_profile,
                   lamports, tokens, clock, last, market_b, lp_lock>>

\* The SigmoidCurve of the curve's own tests,
\* SigmoidCurve::new(1000, 1000000, 5000000, 500000, 1000000).
SigmoidTestCurve ==
    SigmoidCurve_new(N(1000), N(1000000), N(5000000), N(500000), N(1000000))

\* The supplies the tests ask the SigmoidCurve at: none, the first tokens,
\* the midpoint and max_supply.
SigmoidSupplies ==
    {<< >>, N(100000), N(200000), N(300000), N(500000), N(1000000)}

\* The price of a SigmoidCurve at one supply: the curve of the tests, or the
\* curve of a Sigmoid market at the same fraction of its max_supply.
QuoteSigmoidPrice ==
    /\ probe = << >>
    /\ token_info.bonding_curve.curve_type = "Sigmoid"
    /\ \E c \in {SigmoidTestCurve, create_bonding_curve(token_info.bonding_curve)},
          s \in SigmoidSupplies :
          \E at \in {BDiv(BMul(s, c.max_supply), N(1000000))} :
              probe' = [op |-> "sigmoid_price", curve |-> c, supply |-> at,
                        price |-> Sigmoid_get_current_price(c, at)]
    /\ UNCHANGED <<overflow_checks, platform_config, token_info, user_profile,
                   lamports, tokens, clock, last, market_b, lp_lock>>

(***************************************************************************)
(* instructions/graduate_to_dex.rs: the LP tokens of the pool created.     *)
(***************************************************************************)
\* The Newton steps of calculate_lp_tokens: at most `steps` more of
\* new_x = (x + product / x) / 2, stopping when new_x >= x.
RECURSIVE lp_newton(_, _, _)
lp_newton(product, x, steps) ==
    IF steps = 0 THEN x
    ELSE Let([new_x \in {BDiv(BAdd(x, BDiv(product, x)), N(2))} |->
         IF BGe(new_x, x) THEN x ELSE lp_newton(product, new_x, steps - 1)])

\* fn calculate_lp_tokens(sol_amount: u64, token_amount: u64) -> Result<u64>
calculate_lp_tokens(sol_amount, token_amount) ==
    Let([product \in {BMul(sol_amount, token_amount)} |->
    IF ~Fits128(product) THEN Err("MathOverflow")
    ELSE Let([x \in {BDiv(product, N(2))} |->
         IF x = << >> THEN Ok(<< >>)
         ELSE Ok(AsU64(lp_newton(product, x, 10)))])])

\* create_raydium_pool: the LP tokens minted and the creator's share of them,
\* what is left after the minimum liquidity of 1000 is burnt.
raydium_lp_tokens(sol_amount, token_amount) ==
    Let([lp_tokens_minted \in {calculate_lp_tokens(sol_amount, token_amount)} |->
    IF sol_amount = << >> \/ token_amount = << >> \/ BLt(sol_amount, N(100000000))
    THEN [ok |-> FALSE, err |-> "InsufficientLiquidity",
          lp_tokens_minted |-> << >>, creator_lp_tokens |-> << >>]
    ELSE IF ~lp_tokens_minted.ok
    THEN [ok |-> FALSE, err |-> lp_tokens_minted.err,
          lp_tokens_minted |-> << >>, creator_lp_tokens |-> << >>]
    ELSE IF BLt(lp_tokens_minted.v, N(1000))
    THEN [ok |-> FALSE, err |-> "MathOverflow",
          lp_tokens_minted |-> << >>, creator_lp_tokens |-> << >>]
    ELSE [ok |-> TRUE, err |-> "",
          lp_tokens_minted |-> lp_tokens_minted.v,
          creator_lp_tokens |-> BSub(lp_tokens_minted.v, N(1000))]])

\* The liquidity a pool is created with: SOL in lamports, and tokens.
PoolSolAmounts == {N(1), N(2), N(100000000), N(1000000000)}

PoolTokenAmounts == {N(1), N(2), N(8), N(1000000000), Lit(<<1, 0, 0, 0, 0>>)}

\* The LP tokens of one pool.
QuoteLpTokens ==
    /\ probe = << >>
    /\ \E sol_amount \in PoolSolAmounts, token_amount \in PoolTokenAmounts :
          probe' = [op |-> "lp_tokens", sol_amount |-> sol_amount,
                    token_amount |-> token_amount,
                    lp |-> calculate_lp_tokens(sol_amount, token_amount),
                    pool |-> raydium_lp_tokens(sol_amount, token_amount)]
    /\ UNCHANGED <<overflow_checks, platform_config, token_info, user_profile,
                   lamports, tokens, clock, last, market_b, lp_lock>>

\* The LogarithmicCurve of the curve's own tests,
\* LogarithmicCurve::new(1000, 1000000, 1_000_000).
LogarithmicTestCurve == LogarithmicCurve_new(N(1000), N(1000000), N(1000000))

\* The curve and the supply of the buy-sell symmetry tests, and the curve
\* of a market of the same type at its initial supply.
SymmetryCurves(bc) ==
    {<<create_bonding_curve(bc), bc.initial_supply>>}
        \cup (IF bc.curve_type = "Sigmoid"
              THEN {<<SigmoidTestCurve, N(300000)>>}
              ELSE {<<LogarithmicTestCurve, N(200000)>>})

\* The SOL amounts of the buys sold back: the amount of the tests, a smaller
\* one and the market's.
SymmetryAmounts(bc) == {N(5000000), N(900000), BuyAmount(bc.curve_type)}

\* A buy quoted by a SigmoidCurve or a LogarithmicCurve, and the sale of the
\* tokens bought at the supply the buy produced.
QuoteSymmetry ==
    /\ probe = << >>
    /\ token_info.bonding_curve.curve_type \in {"Sigmoid", "Logarithmic"}
    /\ \E q \in SymmetryCurves(token_info.bonding_curve),
          sol_amount \in SymmetryAmounts(token_info.bonding_curve) :
       \E buy \in {calculate_buy(q[1], sol_amount, q[2])} :
          probe' = [op |-> "symmetry", curve |-> q[1], supply |-> q[2],
                    sol_amount |-> sol_amount, buy |-> buy,
                    sell |-> IF buy.ok
                             THEN calculate_sell(q[1], buy.token_amount, buy.new_supply)
                             ELSE NoQuote]
    /\ UNCHANGED <<overflow_checks, platform_config, token_info, user_profile,
                   lamports, tokens, clock, last, market_b, lp_lock>>

\* The numbers whose square root is asked: those of test_isqrt_function,
\* squares and their neighbours, and the ends of u128.
IsqrtInputs ==
    {N(k) : k \in 0..26}
        \cup {N(255), N(999999), N(1000000), N(1000001), Lit(<<121, 200, 0>>),
              U64_MAX, TwoTo64, BSub(U128_MAX, N(1)), U128_MAX}

\* The integer square root of one number, the helper of a LinearCurve's
\* calculate_buy.
QuoteIsqrt ==
    /\ probe = << >>
    /\ token_info.bonding_curve.curve_type = "Linear"
    /\ \E n \in IsqrtInputs :
          probe' = [op |-> "isqrt", n |-> n, root |-> isqrt(n)]
    /\ UNCHANGED <<overflow_checks, platform_config, token_info, user_profile,
                   lamports, tokens, clock, last, market_b, lp_lock>>

\* The answers are read; the curve is asked again.
Forget ==
    /\ probe # << >>
    /\ probe' = << >>
    /\ UNCHANGED <<overflow_checks, platform_config, token_info, user_profile,
                   lamports, tokens, clock, last, market_b, lp_lock>>

NextCurve ==
    \/ QuotePrice
    \/ QuoteRoundTrip
    \/ QuoteImpact
    \/ QuoteBuyAtCapacity
    \/ QuoteIntegral
    \/ QuotePriceAt
    \/ Forget

SpecCurve == InitCurve /\ [][NextCurve]_vars

\* The market capitalization, the curves of the tests and the LP tokens of a
\* pool, asked of the same markets.
NextQuotes ==
    \/ QuoteMarketCap
    \/ QuoteLinearBuy
    \/ QuoteTwoBuys
    \/ QuoteSigmoidPrice
    \/ QuoteLpTokens
    \/ QuoteSymmetry
    \/ QuoteIsqrt
    \/ Forget

SpecQuotes == InitCurve /\ [][NextQuotes]_vars

(***************************************************************************)
(* The properties of the trades.                                           *)
(***************************************************************************)
Trades == {"buy_tokens", "sell_tokens"}

\* The accounts an instruction can write.
accounts == <<platform_config, token_info, user_profile, lamports, tokens>>

\* The output of a quote that the caller's minimum is compared with: the
\* tokens of a buy, the SOL of a sell.
AmountOut(l) ==
    IF l.op = "buy_tokens" THEN l.calc.token_amount ELSE l.calc.sol_amount

WithinSlippage(l) ==
    /\ BGe(AmountOut(l), l.min_out)
    /\ BLe(l.calc.price_impact, N(l.slippage_tolerance))

\* C2: a trade whose quote is below the caller's minimum output, or whose
\* price impact is above the caller's tolerance, is rejected with
\* SlippageExceeded and changes no account; so an accepted trade meets both.
C2_SlippageEnforced ==
    [][(last'.op \in Trades /\ last'.calc.ok /\ ~WithinSlippage(last'))
         => (~last'.ok /\ last'.err = "SlippageExceeded" /\ UNCHANGED accounts)]_vars

\* A trade was rejected for its price impact alone.
C2_Witness ==
    /\ last.op \in Trades
    /\ last.calc.ok
    /\ BGe(AmountOut(last), last.min_out)
    /\ BGt(last.calc.price_impact, N(last.slippage_tolerance))
    /\ last.err = "SlippageExceeded"

(***************************************************************************)
(* The properties of the quotes.                                           *)
(***************************************************************************)

\* C3: for every curve type, the tokens a buy of A lamports returned, sold
\* right after the buy, return at most A lamports.
C3_NoFreeArbitrage ==
    (probe # << >> /\ probe.op = "round_trip" /\ probe.buy.ok /\ probe.sell.ok)
        => BLe(probe.sell.sol_amount, probe.sol_amount)

\* C4: for every curve type and all supplies s1 < s2 up to the maximum supply,
\* the price at s1 is at most the price at s2.
C4_PriceMonotone ==
    (probe # << >> /\ probe.op = "price" /\ probe.p1.ok /\ probe.p2.ok
       /\ BLe(probe.s2, curve_max_supply(token_info.bonding_curve)))
        => BLe(probe.p1.v, probe.p2.v)

\* The largest supply of a market's curve: ten times the initial supply.
MaxSupplyOf(ti) == BMin(BMul(ti.bonding_curve.initial_supply, N(10)), U64_MAX)

\* C5: after any sequence of accepted buys and sells, the new supply of each
\* accepted trade, and so the stored current_supply, lies between 0 and the
\* maximum supply of the market's curve.
C5_SupplyWithinBounds ==
    /\ BLe(token_info.current_supply, MaxSupplyOf(token_info))
    /\ (last.op \in Trades /\ last.ok)
         => /\ BLe(last.calc.new_supply, MaxSupplyOf(token_info))
            /\ token_info.current_supply = last.calc.new_supply

\* A sell was accepted after a buy, and the market has tokens in circulation.
C5_Witness ==
    /\ last.op = "sell_tokens"
    /\ last.ok
    /\ token_info.total_trades >= 2
    /\ token_info.circulating_supply # << >>

\* C7: every accepted trade updates the market's recorded SOL reserve and
\* recorded token reserve together: a buy adds the SOL credited to the
\* market's vault and takes off the tokens paid out, a sell the reverse.
C7_ReservesMoveTogether ==
    [][/\ (last'.op = "buy_tokens" /\ last'.ok)
            => /\ token_info'.sol_reserves =
                      BAdd(token_info.sol_reserves,
                           BSub(lamports'.bonding_curve_vault, lamports.bonding_curve_vault))
               /\ BAdd(token_info'.token_reserves, last'.calc.token_amount) =
                      token_info.token_reserves
       /\ (last'.op = "sell_tokens" /\ last'.ok)
            => /\ BAdd(token_info'.sol_reserves,
                       BSub(lamports.bonding_curve_vault, lamports'.bonding_curve_vault)) =
                      token_info.sol_reserves
               /\ token_info'.token_reserves =
                      BAdd(token_info.token_reserves, last'.calc.token_amount)]_vars

\* C8: in every reachable state the tokens the market still holds are at most
\* the total supply, the reserves are not negative, and the circulating
\* supply is the total supply less the tokens the market holds.
C8_ReserveAccounting ==
    /\ BLe(tokens.bonding_curve_token_account, tokens.mint_supply)
    /\ BGe(lamports.bonding_curve_vault, << >>)
    /\ BGe(tokens.bonding_curve_token_account, << >>)
    /\ BAdd(token_info.circulating_supply, tokens.bonding_curve_token_account) =
           tokens.mint_supply

\* A buy was accepted after earlier trades: the market holds part of the supply.
C8_Witness ==
    /\ last.op = "buy_tokens"
    /\ last.ok
    /\ token_info.total_trades >= 2
    /\ BLt(tokens.bonding_curve_token_account, tokens.mint_supply)

\* The capitalization of a market: current price times circulating supply.
Capitalization(ti) ==
    Let([price \in {get_current_token_price(ti.bonding_curve, ti.current_supply)} |->
    IF price.ok THEN BMul(price.v, ti.circulating_supply) ELSE << >>])

\* C9: after every accepted trade that leaves the capitalization at or above
\* the market's graduation threshold, the market is marked eligible for
\* graduation.
C9_EligibleAtThreshold ==
    (last.op \in Trades /\ last.ok
       /\ BGe(Capitalization(token_info), token_info.bonding_curve.graduation_threshold))
        => token_info.graduation_eligible

\* C10: every accepted trade has a positive amount, at most the configured
\* maximum trade size, and a slippage tolerance at most the configured
\* maximum, which is at most 5000 basis points.
C10_AcceptedTradeWithinLimits ==
    (last.op \in Trades /\ last.ok)
        => /\ last.amount # << >>
           /\ BLe(last.amount, platform_config.security_params.max_trade_size_sol)
           /\ last.slippage_tolerance <= platform_config.security_params.max_slippage_bps
           /\ platform_config.security_params.max_slippage_bps <= 5000

\* The amount a trade's fees are charged on: the SOL paid for a buy, the SOL
\* quoted for a sell.
TradedAmount(l) == IF l.op = "buy_tokens" THEN l.amount ELSE l.calc.sol_amount

\* floor(a * bps / 10000)
BpsOf(a, bps) == BDiv(BMul(a, N(bps)), N(10000))

\* The whale tax on amount a of a trader with the given earlier volume.
WhaleTaxDue(a, volume, sp) ==
    IF BGe(a, sp.whale_threshold_sol) \/ BGt(volume, sp.whale_threshold_sol)
    THEN BpsOf(a, sp.whale_tax_bps)
    ELSE << >>

\* C11: for every accepted trade on amount a the platform fee is
\* floor(a * feeRateBps / 10000), the whale tax is floor(a * whaleTaxBps / 10000)
\* if a >= whaleThreshold or the trader's earlier volume exceeds whaleThreshold
\* and 0 otherwise, and the net amount is a less both: the treasury receives
\* fee and tax, the vault (buy) or the seller (sell) the net amount.
C11_FeesAndNet ==
    [][(last'.op \in Trades /\ last'.ok) =>
         \E a \in {TradedAmount(last')} :
         \E fee \in {BpsOf(a, platform_config.fee_rate)} :
         \E tax \in {WhaleTaxDue(a, user_profile.total_volume_sol,
                                 platform_config.security_params)} :
            /\ BLe(BAdd(fee, tax), a)
            /\ lamports'.treasury = BAdd(lamports.treasury, BAdd(fee, tax))
            /\ last'.op = "buy_tokens" =>
                 lamports'.bonding_curve_vault =
                     BAdd(lamports.bonding_curve_vault, BSub(a, BAdd(fee, tax)))
            /\ last'.op = "sell_tokens" =>
                 lamports'.trader = BAdd(lamports.trader, BSub(a, BAdd(fee, tax)))]_vars

\* |a - b|
AbsDiff(a, b) == IF BGt(a, b) THEN BSub(a, b) ELSE BSub(b, a)

\* C12: for old_price > 0 the price impact reported is
\* min(10000, floor(|new_price - old_price| * 10000 / old_price)), and it is
\* 10000 when old_price = 0; a change of more than 100% is reported as 10000.
C12_PriceImpactFormula ==
    (probe # << >> /\ probe.op = "impact" /\ probe.impact.ok)
        => probe.impact.v =
             IF probe.old_price = << >> THEN N(10000)
             ELSE BMin(N(10000),
                       BDiv(BMul(AbsDiff(probe.new_price, probe.old_price), N(10000)),
                            probe.old_price))

\* C13: every successful quote of every curve type, buy or sell, reports a
\* price impact between 0 and 10000 basis points.
C13_PriceImpactBounded ==
    /\ (probe # << >> /\ probe.op = "round_trip" /\ probe.buy.ok)
         => /\ BGe(probe.buy.price_impact, << >>)
            /\ BLe(probe.buy.price_impact, N(10000))
    /\ (probe # << >> /\ probe.op = "round_trip" /\ probe.buy.ok /\ probe.sell.ok)
         => /\ BGe(probe.sell.price_impact, << >>)
            /\ BLe(probe.sell.price_impact, N(10000))
    /\ (probe # << >> /\ probe.op = "impact" /\ probe.impact.ok)
         => BLe(probe.impact.v, N(10000))

\* A buy was quoted whose price more than doubled: the impact reported is the
\* limit itself.
C13_Witness ==
    /\ probe # << >>
    /\ probe.op = "round_trip"
    /\ probe.buy.ok
    /\ probe.buy.price_impact = N(10000)

\* The constant-product curve of the market asked, and the curve with the
\* reserves a quoted buy leaves.
CurveAsked == create_bonding_curve(token_info.bonding_curve)
SolAfterBuy == BAdd(CurveAsked.sol_reserve, probe.sol_amount)
TokensAfterBuy == BSub(CurveAsked.token_reserve, probe.buy.token_amount)

\* A constant-product buy was quoted; it and the sale of its tokens succeeded.
ConstantProductBuyQuoted ==
    /\ probe # << >>
    /\ probe.op = "round_trip"
    /\ token_info.bonding_curve.curve_type = "ConstantProduct"
    /\ probe.buy.ok

ConstantProductSellQuoted == ConstantProductBuyQuoted /\ probe.sell.ok

\* The product of the reserves before and after the buy, and before and
\* after the sale that follows it.
ProductBeforeBuy  == BMul(CurveAsked.sol_reserve, CurveAsked.token_reserve)
ProductAfterBuy   == BMul(SolAfterBuy, TokensAfterBuy)
ProductAfterSell  ==
    BMul(BSub(SolAfterBuy, probe.sell.sol_amount),
         BAdd(TokensAfterBuy, probe.sell.token_amount))

\* C14 as stated: for every constant-product buy or sell the product of the
\* reserves after the trade differs from the product k before it by at most
\* k / 10000.
C14_ProductWithinTenThousandth ==
    /\ ConstantProductBuyQuoted
         => BLe(AbsDiff(ProductAfterBuy, ProductBeforeBuy),
                BDiv(ProductBeforeBuy, N(10000)))
    /\ ConstantProductSellQuoted
         => BLe(AbsDiff(ProductAfterSell, ProductAfterBuy),
                BDiv(ProductAfterBuy, N(10000)))

\* C14 amended: the product after a trade never exceeds the product k before
\* it, and falls short of k by less than the reserve the trade paid into: the
\* SOL reserve after a buy, the token reserve after a sell.
C14_ProductWithinRounding ==
    /\ ConstantProductBuyQuoted
         => /\ BLe(ProductAfterBuy, ProductBeforeBuy)
            /\ BLt(BSub(ProductBeforeBuy, ProductAfterBuy), SolAfterBuy)
    /\ ConstantProductSellQuoted
         => /\ BLe(ProductAfterSell, ProductAfterBuy)
            /\ BLt(BSub(ProductAfterBuy, ProductAfterSell),
                   BAdd(TokensAfterBuy, probe.sell.token_amount))

\* A constant-product buy was quoted whose product lost more than k / 10000
\* to rounding, and the sale of its tokens was quoted too.
C14_Witness ==
    /\ ConstantProductSellQuoted
    /\ BGt(BSub(ProductBeforeBuy, ProductAfterBuy), BDiv(ProductBeforeBuy, N(10000)))

\* C15: on a constant-product market the price after an accepted buy that
\* paid out tokens is the price_per_token the buy returned: the next quote is
\* computed against the reserves the buy left.
C15_QuotesFollowReserves ==
    (last.op = "buy_tokens" /\ last.ok
       /\ token_info.bonding_curve.curve_type = "ConstantProduct"
       /\ last.calc.token_amount # << >>)
        => get_current_token_price(token_info.bonding_curve,
                                   token_info.current_supply)
             = Ok(last.calc.price_per_token)

\* ---------------------------------------------------------------------
\* Stored price and capitalization
\* ---------------------------------------------------------------------

\* instructions/security.rs: pub fn get_token_price
get_token_price(ti) == ti.bonding_curve.current_price

\* C16: after every accepted trade the stored current price (what
\* get_token_price returns) is the price_per_token of that trade's quote
\* and the stored market capitalization is that price times the
\* circulating supply.
C16_StoredPriceFollowsTrades ==
    (last.op \in Trades /\ last.ok)
        => /\ get_token_price(token_info) = last.calc.price_per_token
           /\ token_info.market_cap
                  = BMul(get_token_price(token_info), token_info.circulating_supply)

(***************************************************************************)
(* Two markets.  The first market and its trader are the accounts of Spec; *)
(* market_b holds the accounts of a second market and of its trader.  The  *)
(* instructions of both take the platform's PlatformConfig and treasury.   *)
(* market_b.alone follows the second market through the same instructions  *)
(* on a platform where the first market never trades.                      *)
(***************************************************************************)

\* The accounts that belong to one market and its trader alone.
OwnAccounts(acc) ==
    [token_info   |-> acc.token_info,
     user_profile |-> acc.user_profile,
     lamports     |-> [bonding_curve_vault |-> acc.lamports.bonding_curve_vault,
                       trader              |-> acc.lamports.trader],
     tokens       |-> acc.tokens]

\* The accounts every trade takes, whatever its market.
PlatformAccounts(acc) ==
    [platform_config |-> acc.platform_config, treasury |-> acc.lamports.treasury]

\* struct BuyTokens / SellTokens filled in for a market on a platform.
TradeAccounts(own, platform) ==
    [platform_config |-> platform.platform_config,
     token_info      |-> own.token_info,
     user_profile    |-> own.user_profile,
     lamports        |-> [bonding_curve_vault |-> own.lamports.bonding_curve_vault,
                          treasury            |-> platform.treasury,
                          trader              |-> own.lamports.trader],
     tokens          |-> own.tokens]

AccountsB == TradeAccounts(market_b.own, PlatformAccounts(Accounts))
AccountsBAlone == TradeAccounts(market_b.alone.own, market_b.alone.platform)

NewMarketB(t) ==
    [token_info   |-> create_token(MarketCurve(t), CreatedAt),
     user_profile |-> NewUserProfile,
     lamports     |-> [bonding_curve_vault |-> << >>, trader |-> Lit(<<500, 0, 0, 0>>)],
     tokens       |-> [bonding_curve_token_account |-> MarketCurve(t).initial_supply,
                       trader |-> << >>, mint_supply |-> MarketCurve(t).initial_supply]]

\* The curve types of the first and of the second market.
MarketPairs == {<<"Linear", "ConstantProduct">>}

\* Neither of these curve types has arithmetic that the build profile changes.
InitMarkets ==
    /\ overflow_checks = FALSE
    /\ platform_config = initialize_platform(100, DefaultSecurityParams, CreatedAt)
    /\ \E pair \in MarketPairs :
          token_info = create_token(MarketCurve(pair[1]), CreatedAt)
    /\ user_profile = NewUserProfile
    /\ lamports = [bonding_curve_vault |-> << >>, treasury |-> << >>,
                   trader |-> Lit(<<500, 0, 0, 0>>)]
    /\ tokens = [bonding_curve_token_account |-> token_info.bonding_curve.initial_supply,
                 trader |-> << >>, mint_supply |-> token_info.bonding_curve.initial_supply]
    /\ clock = StartTime
    /\ last = NoInstruction
    /\ probe = << >>
    /\ \E t \in {pair[2] : pair \in {q \in MarketPairs :
                        q[1] = token_info.bonding_curve.curve_type}} :
          market_b = [own   |-> NewMarketB(t),
                      found |-> PlatformAccounts(Accounts),
                      last  |-> NoInstruction,
                      alone |-> [own      |-> NewMarketB(t),
                                 platform |-> PlatformAccounts(Accounts),
                                 found    |-> PlatformAccounts(Accounts),
                                 last     |-> NoInstruction]]
    /\ lp_lock = NoLpLock

\* The requests of a market's trader: a plain buy, a buy with a minimum no
\* quote reaches, and the sale of half the tokens held.
BuyRequestsOn(ti) ==
    { <<BuyAmount(ti.bonding_curve.curve_type), << >>, 1000>>,
      <<BuyAmount(ti.bonding_curve.curve_type), U64_MAX, 1000>> }

SellRequestsOf(held) == { <<BDiv(held, N(2)), << >>, 1000>> }

\* The requests of a trade instruction on a market, for a trader holding
\* `held` tokens.
RequestsOn(op, ti, held) ==
    IF op = "buy_tokens" THEN BuyRequestsOn(ti) ELSE SellRequestsOf(held)

\* pump_core::buy_tokens / pump_core::sell_tokens on the accounts acc.
TradeInstruction(op, acc, clk, req) ==
    IF op = "buy_tokens"
    THEN Dispatch(acc, BuyTokens_constraints(acc),
                  buy_tokens(acc, clk, req[1], req[2], req[3]))
    ELSE Dispatch(acc, SellTokens_constraints(acc),
                  sell_tokens(acc, clk, req[1], req[2], req[3]))

\* A trade of the first market's trader.
TradeOnA ==
    /\ Idle
    /\ \E op \in Trades :
       \E req \in RequestsOn(op, token_info, tokens.trader) :
       \E r \in {TradeInstruction(op, Accounts, clock, req)} :
           /\ Commit(Committed(Accounts, r))
           /\ last' = Outcome(op, r, req[1], req[2], req[3])
           /\ UNCHANGED <<overflow_checks, clock, probe, market_b, lp_lock>>

\* The second market after an instruction that found the accounts b, shared
\* with the first market, and the accounts a, its own alone, left r and ra.
TradedOnB(op, req, b, a, r, ra) ==
    /\ platform_config' = Committed(b, r).platform_config
    /\ lamports' = [lamports EXCEPT !.treasury = Committed(b, r).lamports.treasury]
    /\ market_b' =
         [own   |-> OwnAccounts(Committed(b, r)),
          found |-> PlatformAccounts(b),
          last  |-> Outcome(op, r, req[1], req[2], req[3]),
          alone |-> [own      |-> OwnAccounts(Committed(a, ra)),
                     platform |-> PlatformAccounts(Committed(a, ra)),
                     found    |-> PlatformAccounts(a),
                     last     |-> Outcome(op, ra, req[1], req[2], req[3])]]
    /\ UNCHANGED <<overflow_checks, token_info, user_profile, tokens, clock, last, probe, lp_lock>>

\* A trade of the second market's trader, on the platform shared with the
\* first market and on the platform of its own.
TradeOnB ==
    /\ Idle
    /\ \E op \in Trades, b \in {AccountsB}, a \in {AccountsBAlone} :
       \E req \in RequestsOn(op, market_b.own.token_info, market_b.own.tokens.trader) :
       \E rs \in {[acc \in {b, a} |-> TradeInstruction(op, acc, clock, req)]} :
           TradedOnB(op, req, b, a, rs[b], rs[a])

NextMarkets ==
    \/ TradeOnA
    \/ TradeOnB
    \/ Observe
    \/ Tick

SpecMarkets == InitMarkets /\ [][NextMarkets]_vars

\* The second market's trade and the first market's are on record together.
BothMarketsTraded ==
    /\ market_b # << >>
    /\ market_b.last.op \in Trades

HasMaxSupply == token_info.bonding_curve.curve_type # "ConstantProduct"

CapacityAsked == probe # << >> /\ probe.op = "capacity" /\ HasMaxSupply

\* The tokens the curve can still sell at the supply asked.
RemainingCapacity == BSub(curve_max_supply(token_info.bonding_curve), probe.supply)

\* The amount offered is more than twice the price, at max_supply, of all
\* the tokens the curve can still sell.
BeyondCapacity ==
    \E top \in {get_current_token_price(token_info.bonding_curve,
                                        curve_max_supply(token_info.bonding_curve))} :
        /\ top.ok
        /\ BGt(probe.sol_amount, BMul(N(2), BMul(RemainingCapacity, top.v)))

\* C18: a buy quote at current_supply = max_supply fails for every positive
\* amount, and a buy whose amount would take the supply above max_supply
\* fails with InsufficientLiquidity instead of succeeding with fewer tokens
\* or none.
C18_NoCapacityNoQuote ==
    CapacityAsked
        => /\ (RemainingCapacity = << >>) => ~probe.buy.ok
           /\ BeyondCapacity
                => (~probe.buy.ok /\ probe.buy.err = "InsufficientLiquidity")

\* ---------------------------------------------------------------------
\* Selling more than there is
\* ---------------------------------------------------------------------

\* More tokens than the supply the curve is asked at; for the
\* constant-product curve, no fewer than its token reserve.
Oversold(token_amount) ==
    IF token_info.bonding_curve.curve_type = "ConstantProduct"
    THEN BGe(token_amount, create_bonding_curve(token_info.bonding_curve).token_reserve)
    ELSE BGt(token_amount, token_info.current_supply)

BalanceErrors == {"InsufficientBalance", "InsufficientLiquidity"}

\* The curve refuses to quote the sale for want of balance or liquidity.
QuoteRefused(token_amount) ==
    \E q \in {calculate_sell_tokens(token_info.bonding_curve, token_amount,
                                    token_info.current_supply)} :
        ~q.ok /\ q.err \in BalanceErrors

\* C19: for every curve type the sell quote for more tokens than the supply
\* (constant product: for no fewer than the token reserve) is rejected with
\* an insufficient-balance or insufficient-liquidity error, and sell_tokens
\* rejects a request for more than the supply in circulation and changes
\* nothing.
C19_OversellRejected ==
    [][(last'.op = "sell_tokens"
          /\ (Oversold(last'.amount)
                \/ BGt(last'.amount, token_info.circulating_supply)))
         => /\ Oversold(last'.amount) => QuoteRefused(last'.amount)
            /\ ~last'.ok
            /\ UNCHANGED accounts]_vars

\* After a trade, sell_tokens was asked for more tokens than the supply.
C19_Witness ==
    /\ last.op = "sell_tokens"
    /\ ~last.ok
    /\ last.err = "InsufficientBalance"
    /\ BGt(last.amount, token_info.current_supply)
    /\ token_info.total_trades > 0

\* ---------------------------------------------------------------------
\* Arithmetic without loss
\* ---------------------------------------------------------------------

MathErrors == {"MathOverflow", "MathematicalOverflow"}

\* a*d + b*(from*d + d*d/2) for d = to - from, in unbounded integers.
IntegralOf(a, b, from, to) ==
    BAdd(BMul(a, BSub(to, from)),
         BAdd(BMul(BMul(b, from), BSub(to, from)),
              BDiv(BMul(BMul(b, BSub(to, from)), BSub(to, from)), N(2))))

\* |new_price - old_price| * 10000 / old_price, in unbounded integers.
ImpactOf(old_price, new_price) ==
    BDiv(BMul(AbsDiff(new_price, old_price), N(10000)), old_price)

\* C20: a curve operation returns the value of its integer formula, computed
\* without loss, or fails with a math-overflow error; nothing it returns has
\* been wrapped around or cut down to 64 or to 16 bits.  Stated for
\* integrate_linear and calculate_price_impact.
C20_ExactOrMathOverflow ==
    /\ (probe # << >> /\ probe.op = "integral" /\ BLe(probe.from, probe.to))
         => IF probe.result.ok
            THEN probe.result.v = IntegralOf(probe.a, probe.b, probe.from, probe.to)
            ELSE probe.result.err \in MathErrors
    /\ (probe # << >> /\ probe.op = "impact" /\ probe.old_price # << >>)
         => IF probe.impact.ok
            THEN probe.impact.v
                   = BMin(ImpactOf(probe.old_price, probe.new_price), N(10000))
            ELSE probe.impact.err \in MathErrors

\* ---------------------------------------------------------------------
\* One price at one supply
\* ---------------------------------------------------------------------

PriceAsked == probe # << >> /\ probe.op = "price_at"

PriceAskedOf(t) == PriceAsked /\ token_info.bonding_curve.curve_type = t

\* C21: the logarithmic price succeeds at every supply up to max_supply
\* and is at least base_price; the logarithm never subtracts below zero and
\* never wraps, so that below PRECISION - 1 tokens, where the series has
\* nothing to add, the price is base_price.
C21_LogarithmicPriceChecked ==
    PriceAskedOf("Logarithmic")
        => /\ probe.price.ok
           /\ BGe(probe.price.v, token_info.bonding_curve.initial_price)
           /\ BLt(BAdd(probe.supply, N(1)), PRECISION)
                => probe.price.v = token_info.bonding_curve.initial_price

(***************************************************************************)
(* The market capitalisation.                                              *)
(***************************************************************************)
MarketCapAsked == probe # << >> /\ probe.op = "market_cap"

\* The number of tokens the capitalisation counts: the supply asked about,
\* and the token reserve for a ConstantProductCurve.
CapSupply ==
    IF token_info.bonding_curve.curve_type = "ConstantProduct"
    THEN token_info.bonding_curve.initial_supply
    ELSE probe.supply

PriceTimesSupply == BMul(CapSupply, probe.price.v)

\* C22: the market capitalisation is the current price times the supply, and
\* the largest u64 when that product is above it; it never wraps.
C22_MarketCapSaturates ==
    (MarketCapAsked /\ probe.price.ok)
        => /\ probe.cap.ok
           /\ probe.cap.v = BMin(PriceTimesSupply, U64_MAX)

\* C22, as the code has it: the market capitalisation is the current price
\* times the supply when that product fits u64, and the request fails with
\* MathematicalOverflow when it does not; a price that fails, fails the
\* capitalisation with the same error.
C22_MarketCapExactOrOverflow ==
    MarketCapAsked
        => IF ~probe.price.ok THEN probe.cap = Err(probe.price.err)
           ELSE IF Fits64(PriceTimesSupply) THEN probe.cap = Ok(PriceTimesSupply)
           ELSE probe.cap = Err("MathematicalOverflow")

C22_Witness ==
    /\ MarketCapAsked
    /\ token_info.bonding_curve = LinearLargeSupply
    /\ probe.price.ok
    /\ ~Fits64(PriceTimesSupply)
    /\ probe.cap = Err("MathematicalOverflow")

\* The curve built for the market.
MarketCurveBuilt == create_bonding_curve(token_info.bonding_curve)

\* The price asked for was returned and lies in [lo, hi].
PriceWithin(lo, hi) == BGe(probe.price.v, lo) /\ BLe(probe.price.v, hi)

\* C23: every price a curve returns at a supply in [0, max_supply] lies
\* between the minimum price and the market's graduation threshold; a
\* Sigmoid price lies between the curve's min_price and max_price.
C23_PriceWithinGraduationThreshold ==
    (PriceAsked /\ probe.price.ok)
        => IF token_info.bonding_curve.curve_type = "Sigmoid"
           THEN PriceWithin(MarketCurveBuilt.min_price, MarketCurveBuilt.max_price)
           ELSE PriceWithin(MIN_PRICE, token_info.bonding_curve.graduation_threshold)

\* C23, as the code has it: every price a curve returns at a supply in
\* [0, max_supply] is at least MIN_PRICE, with no upper limit but u64::MAX;
\* a Sigmoid price lies between the curve's min_price and max_price.
C23_PriceAtLeastMinPrice ==
    (PriceAsked /\ probe.price.ok)
        => IF token_info.bonding_curve.curve_type = "Sigmoid"
           THEN PriceWithin(MarketCurveBuilt.min_price, MarketCurveBuilt.max_price)
           ELSE PriceWithin(MIN_PRICE, U64_MAX)

C23_Witness ==
    /\ PriceAskedOf("Linear")
    /\ probe.supply = curve_max_supply(token_info.bonding_curve)
    /\ probe.price.ok
    /\ BGt(probe.price.v, token_info.bonding_curve.graduation_threshold)

\* C24: for every curve variant the price at supply 0 is returned, without
\* a division by zero or any other error, and is the curve's initial price.
C24_PriceAtZeroIsInitialPrice ==
    (PriceAsked /\ probe.supply = << >>)
        => /\ probe.price.ok
           /\ probe.price.v = token_info.bonding_curve.initial_price

\* ---------------------------------------------------------------------
\* The buys of a LinearCurve
\* ---------------------------------------------------------------------

LinearBuyAccepted == probe # << >> /\ probe.op = "linear_buy" /\ probe.buy.ok

\* C25: every accepted Linear buy of a positive SOL amount returns
\* token_amount > 0, sol_amount equal to the input, new_supply =
\* current_supply + token_amount and a new price above the initial price;
\* so does LinearCurve::new(1000, 10, 1000000) for 10000 lamports at supply
\* 1000.
C25_LinearBuyReturnsTokens ==
    LinearBuyAccepted
        => /\ probe.buy.token_amount # << >>
           /\ probe.buy.sol_amount = probe.sol_amount
           /\ probe.buy.new_supply = BAdd(probe.supply, probe.buy.token_amount)
           /\ BGt(probe.buy.price_per_token, probe.curve.initial_price)

\* ---------------------------------------------------------------------
\* Two buys of a ConstantProductCurve against the same reserves
\* ---------------------------------------------------------------------

TwoBuysAccepted ==
    probe # << >> /\ probe.op = "two_buys" /\ probe.buy1.ok /\ probe.buy2.ok

\* a2 / t2 > a1 / t1, the effective prices compared without a division.
WorsePrice(a1, t1, a2, t2) == BGt(BMul(a2, t1), BMul(a1, t2))

\* C26: of two ConstantProduct buys a1 < a2 accepted against the same
\* reserves, the larger pays strictly more per token:
\* a2 / tokens(a2) > a1 / tokens(a1).
C26_LargerBuyStrictlyWorsePrice ==
    TwoBuysAccepted
        => WorsePrice(probe.a1, probe.buy1.token_amount,
                      probe.a2, probe.buy2.token_amount)

\* C26, as the code has it: the tokens of a buy are rounded up to the next
\* whole token, and the larger buy pays strictly more per token once one
\* token is taken off what it returns: a2 / (tokens(a2) - 1) > a1 / tokens(a1).
C26_LargerBuyWorsePriceWithinOneToken ==
    TwoBuysAccepted
        => WorsePrice(probe.a1, probe.buy1.token_amount,
                      probe.a2, BSub(probe.buy2.token_amount, N(1)))

C26_Witness ==
    /\ TwoBuysAccepted
    /\ probe.curve = ConstantProductEvenReserves
    /\ probe.a1 = N(100000000)
    /\ probe.a2 = N(1000000000)
    /\ probe.buy1.token_amount = N(90909091)
    /\ probe.buy2.token_amount = N(500000000)

\* ---------------------------------------------------------------------
\* The S shape of the SigmoidCurve
\* ---------------------------------------------------------------------

SigmoidTestPriceAt(s) ==
    /\ probe # << >>
    /\ probe.op = "sigmoid_price"
    /\ probe.curve = SigmoidTestCurve
    /\ probe.supply = s

\* C27: the SigmoidCurve with min_price 1000, max_price 1_000_000,
\* steepness 5_000_000, midpoint 500_000 and max_supply 1_000_000 has a
\* price in [1000, 100000) at supply 0, strictly between 300000 and 700000
\* at supply 500_000, and in (900000, 1000000] at supply 1_000_000.
C27_SigmoidTestPrices ==
    /\ SigmoidTestPriceAt(<< >>)
         => /\ probe.price.ok
            /\ BGe(probe.price.v, N(1000)) /\ BLt(probe.price.v, N(100000))
    /\ SigmoidTestPriceAt(N(500000))
         => /\ probe.price.ok
            /\ BGt(probe.price.v, N(300000)) /\ BLt(probe.price.v, N(700000))
    /\ SigmoidTestPriceAt(N(1000000))
         => /\ probe.price.ok
            /\ BGt(probe.price.v, N(900000)) /\ BLe(probe.price.v, N(1000000))

\* ---------------------------------------------------------------------
\* The LP tokens of the pool
\* ---------------------------------------------------------------------

LpTokensAsked == probe # << >> /\ probe.op = "lp_tokens"

\* r is the integer square root of n: r * r <= n < (r + 1) * (r + 1).
IsFloorSqrt(r, n) ==
    /\ BLe(BMul(r, r), n)
    /\ BLt(n, BMul(BAdd(r, N(1)), BAdd(r, N(1))))

\* C30: calculate_lp_tokens(sol_amount, token_amount) returns
\* floor(sqrt(sol_amount * token_amount)), and the creator of a Raydium pool
\* receives exactly that square root less the 1000 LP tokens burnt.
C30_LpTokensAreSquareRoot ==
    LpTokensAsked
        => /\ probe.lp.ok
           /\ IsFloorSqrt(probe.lp.v, BMul(probe.sol_amount, probe.token_amount))
           /\ probe.pool.ok
                => /\ IsFloorSqrt(probe.pool.lp_tokens_minted,
                                  BMul(probe.sol_amount, probe.token_amount))
                   /\ BAdd(probe.pool.creator_lp_tokens, N(1000))
                          = probe.pool.lp_tokens_minted

(***************************************************************************)
(* The timelock of the LP tokens: one owner, one LP mint.                  *)
(*                                                                         *)
(* lock_lp_tokens takes the DexListing of the graduated token as an        *)
(* account; the listing is given here, with its liquidity_locked flag      *)
(* either way.                                                             *)
(***************************************************************************)
\* LockTick moves the clock by LockTickSeconds, at most LockMaxTicks times;
\* extend_lock is followed up to a lock_end of StartTime + LockHorizon.
LockTickSeconds == 21600
LockMaxTicks == 8
LockHorizon == 3 * 86400

LockAmounts == {<< >>, N(1000), N(2000)}
LockDurations == {3600, 86400, 2 * 86400, MAX_LOCK_DURATION + 1}
UnlockAmounts == {<< >>, N(250), N(500), N(1000)}
ExtendDurations == {0, 86400, MAX_LOCK_DURATION}

InitLock ==
    /\ overflow_checks = TRUE
    /\ platform_config = initialize_platform(100, DefaultSecurityParams, CreatedAt)
    /\ token_info = create_token(MarketCurve("Linear"), CreatedAt)
    /\ user_profile = NewUserProfile
    /\ lamports = [bonding_curve_vault |-> << >>, treasury |-> << >>,
                   trader |-> Lit(<<500, 0, 0, 0>>)]
    /\ tokens = [bonding_curve_token_account |-> token_info.bonding_curve.initial_supply,
                 trader |-> << >>, mint_supply |-> token_info.bonding_curve.initial_supply]
    /\ clock = StartTime
    /\ last = NoInstruction
    /\ probe = << >>
    /\ market_b = << >>
    /\ lp_lock = NoLpLock

\* A lock instruction as the runtime executes it: the constraints of the
\* account struct first, and the handler only if none of them refuses.
LockDispatch(l, refused, handled) ==
    IF refused # "" THEN LockFail(l, refused) ELSE handled

\* The lock accounts after the instruction op that returned r.
LockInstruction(op, r) ==
    /\ lp_lock' = [LockCommitted(lp_lock, r) EXCEPT
                     !.last = [op |-> op, ok |-> r.ok, err |-> r.err]]
    /\ UNCHANGED <<overflow_checks, platform_config, token_info, user_profile,
                   lamports, tokens, clock, last, probe, market_b>>

LockLpTokens ==
    \E lp_amount \in LockAmounts, lock_duration \in LockDurations,
       enable_vesting \in BOOLEAN, liquidity_locked \in BOOLEAN :
       LockInstruction("lock_lp_tokens",
           LockDispatch(lp_lock,
               LockLpTokens_constraints(lp_lock, liquidity_locked, lp_amount),
               lock_lp_tokens(lp_lock, clock, lp_amount, lock_duration, enable_vesting)))

UnlockLpTokens ==
    \E amount \in UnlockAmounts, signer_is_owner \in BOOLEAN :
       LockInstruction("unlock_lp_tokens",
           LockDispatch(lp_lock, OwnLock_constraints(lp_lock, signer_is_owner),
                        unlock_lp_tokens(lp_lock, clock, amount)))

ExtendLock ==
    \E additional_duration \in ExtendDurations, signer_is_owner \in BOOLEAN :
    \E r \in {LockDispatch(lp_lock, OwnLock_constraints(lp_lock, signer_is_owner),
                           extend_lock(lp_lock, clock, additional_duration))} :
       /\ r.ok => r.l.lock.lock_end <= StartTime + LockHorizon
       /\ LockInstruction("extend_lock", r)

LockTick ==
    /\ clock < StartTime + LockMaxTicks * LockTickSeconds
    /\ clock' = clock + LockTickSeconds
    /\ UNCHANGED <<overflow_checks, platform_config, token_info, user_profile,
                   lamports, tokens, last, probe, market_b, lp_lock>>

NextLock ==
    \/ LockLpTokens
    \/ UnlockLpTokens
    \/ ExtendLock
    \/ LockTick

SpecLock == InitLock /\ [][NextLock]_vars

\* total_locked * (t - lock_start) / (lock_end - lock_start), rounded down.
VestedUntil(lock, t) ==
    BDiv(BMul(BAdd(lock.locked_amount, lock.unlocked_amount), N(t - lock.lock_start)),
         N(lock.lock_end - lock.lock_start))

\* A step in which LP tokens leave the vault of an existing lock.
UnlockAccepted ==
    /\ lp_lock.lock.exists
    /\ lp_lock'.lock.unlocked_amount # lp_lock.lock.unlocked_amount

RateSecurityParams == [DefaultSecurityParams EXCEPT !.rate_limit_per_minute = 2]

\* RateTick moves the clock by RateTickSeconds, more than a minute, at most
\* RateMaxTicks times.
RateTickSeconds == 61
RateMaxTicks == 3

InitRate ==
    /\ overflow_checks \in BOOLEAN
    /\ platform_config = initialize_platform(100, RateSecurityParams, CreatedAt)
    /\ \E t \in CurveTypes : token_info = create_token(MarketCurve(t), CreatedAt)
    /\ user_profile = NewUserProfile
    /\ lamports = [bonding_curve_vault |-> << >>, treasury |-> << >>,
                   trader |-> Lit(<<500, 0, 0, 0>>)]
    /\ tokens = [bonding_curve_token_account |-> token_info.bonding_curve.initial_supply,
                 trader |-> << >>, mint_supply |-> token_info.bonding_curve.initial_supply]
    /\ clock = StartTime
    /\ last = NoInstruction
    /\ probe = << >>
    /\ market_b = << >>
    /\ lp_lock = NoLpLock

\* A trade of the trader: a buy, or the sale of half the tokens held.
TradeAtRate ==
    /\ Idle
    /\ \E op \in Trades :
       \E req \in RequestsOn(op, token_info, tokens.trader) :
       \E r \in {TradeInstruction(op, Accounts, clock, req)} :
           /\ Commit(Committed(Accounts, r))
           /\ last' = Outcome(op, r, req[1], req[2], req[3])
           /\ UNCHANGED <<overflow_checks, clock, probe, market_b, lp_lock>>

\* More than a minute passes between instructions.
RateTick ==
    /\ Idle
    /\ clock < StartTime + RateMaxTicks * RateTickSeconds
    /\ clock' = clock + RateTickSeconds
    /\ UNCHANGED <<overflow_checks, platform_config, token_info, user_profile,
                   lamports, tokens, last, probe, market_b, lp_lock>>

NextRate ==
    \/ TradeAtRate
    \/ Observe
    \/ RateTick

SpecRate == InitRate /\ [][NextRate]_vars

\* C31: the trade that follows a trade of more than 60 seconds earlier sets
\* trades_last_minute to 1, and a trader with at most one accepted trade in
\* every 60 seconds (the cooldown of 10 seconds and the ticks of 61 seconds
\* allow no more) is never rejected with RateLimitExceeded.
C31_CounterCountsLastMinute ==
    [][/\ (/\ Idle /\ last'.op \in Trades /\ last'.ok
           /\ clock - user_profile.last_trade_timestamp > 60)
            => user_profile'.trades_last_minute = 1
       /\ last'.err # "RateLimitExceeded"
      ]_vars

(***************************************************************************)
(* Markets created with initial liquidity: the instructions of the first   *)
(* specification, on a market whose creator paid SOL into the vault.       *)
(***************************************************************************)
\* fn handle_initial_liquidity(ctx, token_info, liquidity_amount): the
\* creator's SOL is counted in the market's volume.
handle_initial_liquidity(ti, liquidity_amount) ==
    [ti EXCEPT !.total_volume_sol = BAdd(ti.total_volume_sol, liquidity_amount)]

\* params.initial_liquidity: none, or the platform's min_initial_liquidity.
InitialLiquidity == {<< >>, N(100000000)}

InitFunded ==
    /\ overflow_checks \in BOOLEAN
    /\ platform_config = initialize_platform(100, DefaultSecurityParams, CreatedAt)
    /\ \E t \in CurveTypes, initial_liquidity \in InitialLiquidity :
          /\ token_info =
               IF initial_liquidity # << >>
               THEN handle_initial_liquidity(create_token(MarketCurve(t), CreatedAt),
                                             initial_liquidity)
               ELSE create_token(MarketCurve(t), CreatedAt)
          /\ lamports = [bonding_curve_vault |-> initial_liquidity, treasury |-> << >>,
                         trader |-> Lit(<<500, 0, 0, 0>>)]
    /\ user_profile = NewUserProfile
    /\ tokens = [bonding_curve_token_account |-> token_info.bonding_curve.initial_supply,
                 trader |-> << >>, mint_supply |-> token_info.bonding_curve.initial_supply]
    /\ clock = StartTime
    /\ last = NoInstruction
    /\ probe = << >>
    /\ market_b = << >>
    /\ lp_lock = NoLpLock

SpecFunded == InitFunded /\ [][Next]_vars

\* An instruction is executed in this step, and it is an accepted trade.
TradeAcceptedNow == Idle /\ last'.op \in Trades /\ last'.ok

\* Each accepted trade adds one to the market's total_trades and its SOL
\* amount to total_volume_sol; every other step leaves both.
BookkeepingFollowsTrades ==
    IF TradeAcceptedNow
    THEN /\ token_info'.total_trades = token_info.total_trades + 1
         /\ token_info'.total_volume_sol =
                BAdd(token_info.total_volume_sol, TradedAmount(last'))
    ELSE /\ token_info'.total_trades = token_info.total_trades
         /\ token_info'.total_volume_sol = token_info.total_volume_sol

\* C32: the market's total_trades is the number of accepted trades and its
\* total_volume_sol the sum of their SOL amounts (nothing before the first
\* accepted trade), and only an accepted trade changes them.
C32_VolumeIsSumOfTrades ==
    [][/\ BookkeepingFollowsTrades
       /\ token_info.total_trades = 0 => token_info.total_volume_sol = << >>
      ]_vars

\* ---------------------------------------------------------------------
\* The symmetry of a buy and the sale of the tokens bought
\* ---------------------------------------------------------------------

SymmetryAsked == probe # << >> /\ probe.op = "symmetry"

\* The calls of test_sigmoid_curve_buy_sell_symmetry and of
\* test_logarithmic_curve_buy_sell_symmetry: 5_000_000 lamports on the
\* curve of the tests.
SymmetryTestCall ==
    /\ SymmetryAsked
    /\ probe.curve \in {SigmoidTestCurve, LogarithmicTestCurve}
    /\ probe.sol_amount = N(5000000)

\* C33: on a Sigmoid or a Logarithmic curve the sale of the tokens just
\* bought, at the supply the buy produced, is accepted, returns the supply
\* to its starting value and returns a SOL amount that differs from the SOL
\* spent by less than a tenth of it; the buys of the curves' own tests are
\* accepted.
C33_BuySellSymmetry ==
    /\ SymmetryTestCall => probe.buy.ok
    /\ (SymmetryAsked /\ probe.buy.ok)
         => /\ probe.sell.ok
            /\ probe.sell.new_supply = probe.supply
            /\ BLt(AbsDiff(probe.buy.sol_amount, probe.sell.sol_amount),
                   BDiv(probe.buy.sol_amount, N(10)))

QuoteForCirculatingSupply ==
    calculate_sell_tokens(token_info.bonding_curve, token_info.circulating_supply,
                          token_info.current_supply)

\* C35: the vault holds at least the SOL the curve quotes for the sale of
\* the whole circulating supply, and no sell is rejected with
\* InsufficientLiquidity.
C35_MarketStaysSolvent ==
    /\ (token_info.circulating_supply # << >> /\ QuoteForCirculatingSupply.ok)
          => BGe(lamports.bonding_curve_vault, QuoteForCirculatingSupply.sol_amount)
    /\ ~(last.op = "sell_tokens" /\ last.err = "InsufficientLiquidity")

\* C37: locked_amount + unlocked_amount of an LP lock is the amount
\* lock_lp_tokens moved into the vault, whatever unlock_lp_tokens and
\* extend_lock do afterwards, and is_locked is true exactly while
\* locked_amount > 0.
C37_LockedPlusUnlockedIsOriginal ==
    [][/\ (~lp_lock.lock.exists /\ lp_lock'.lock.exists)
             => /\ lp_lock'.lock.unlocked_amount = << >>
                /\ lp_lock'.lock.locked_amount # << >>
                /\ lp_lock'.lock.locked_amount =
                       BSub(lp_lock.owner_lp_account, lp_lock'.owner_lp_account)
       /\ lp_lock.lock.exists
             => /\ lp_lock'.lock.exists
                /\ BAdd(lp_lock'.lock.locked_amount, lp_lock'.lock.unlocked_amount) =
                       BAdd(lp_lock.lock.locked_amount, lp_lock.lock.unlocked_amount)
       /\ lp_lock'.lock.exists
             => (lp_lock'.lock.is_locked <=> lp_lock'.lock.locked_amount # << >>)
      ]_vars

\* All the LP tokens of a lock with vesting have been unlocked: nothing
\* stays locked and the lock is no longer in force.
C37_Witness ==
    /\ lp_lock.lock.exists
    /\ ~lp_lock.lock.is_locked
    /\ lp_lock.lock.locked_amount = << >>
    /\ lp_lock.lock.unlocked_amount = N(1000)
    /\ lp_lock.last.op = "unlock_lp_tokens" /\ lp_lock.last.ok
    /\ lp_lock.lock.vesting_enabled

\* ---------------------------------------------------------------------
\* The integer square root
\* ---------------------------------------------------------------------

IsqrtAsked == probe # << >> /\ probe.op = "isqrt"

\* C38: isqrt(n) returns, for every n of u128, the floor of the square root
\* of n: the r with r * r <= n < (r + 1) * (r + 1).
C38_IsqrtIsFloorSqrt ==
    IsqrtAsked => /\ probe.root.ok
                  /\ IsFloorSqrt(probe.root.v, probe.n)

====
